---- MODULE Spec2Model ----
(***************************************************************************)
(* Motion-triggered sound placement (vse_event_sounds_panel.py):           *)
(*   - the track scheduler  separate_overlapping_strips / strips_overlap   *)
(*     and its Resolve wrapper                                             *)
(*     compute_resolve_track_assignments_with_vse_logic,                   *)
(*   - the crossing detector  detect_z_crossings,                          *)
(*   - the two placement operators  VSE_OT_AddSoundsAtZCrossings.execute   *)
(*     and VSE_OT_SendSoundsToDaVinciResolve.execute.                      *)
(* Three specifications share the variables: SpecSched, SpecDetect and     *)
(* SpecOp.  Frames are integers; bone heights, speeds and volumes are      *)
(* exact rationals kept as scaled integers.                                *)
(***************************************************************************)
EXTENDS Integers, Sequences, FiniteSets, TLC

\* ------------------------------------------------------------------ bounds
\* Scheduler inputs: at most MaxStrips strips, start frames 0, FrameStep, ...,
\* MaxStartSteps*FrameStep, durations FrameStep .. MaxDurSteps*FrameStep,
\* base channel 1 (an empty timeline) or MaxBase (above earlier runs).
MaxStrips == 3
MaxStartSteps == 4
MaxOrderSteps == 2
MaxDurSteps == 2
FrameStep == 5
MaxBase == 2

\* Detector inputs: heights -MaxHeight .. MaxHeight in units of half a length unit,
\* thresholds 0 and MaxThreshold, frames 0 .. MaxFrame, at most MaxBones bones and
\* at most MaxSamples (bone, frame) samples in one scan.  The scenario of the
\* specification (one bone, frames 0..5) is a second family of inputs.
MaxHeight == 2
MaxThreshold == 1
MaxFrame == 3
MaxBones == 2
MaxSamples == 6

\* Operator runs: at most OpMaxBones bones, frames 1 .. OpMaxFrame, at most
\* OpMaxSamples samples in the scan, heights -OpMaxHeight .. OpMaxHeight in whole
\* length units; volumes and randomness in units of 1 / VolScale, randomness up to
\* MaxRandomness of them; random.uniform draws one of UniformSteps + 1 evenly
\* spaced points of its interval.  The volume computation alone: at most
\* MaxEvents crossing events with speeds 1 .. MaxSpeed.  The frame conversion
\* alone: events up to MaxOffset frames after frame_start.  The duration
\* conversion alone: WAV files of up to MaxWaveFrames sample frames.  The clip
\* lookup alone: at most MaxClips clips registered.
OpMaxBones == 2
OpMaxFrame == 3
OpMaxSamples == 4
OpMaxHeight == 1
VolScale == 4
MaxRandomness == 4
UniformSteps == 2
MaxEvents == 3
MaxSpeed == 3
MaxOffset == 200
MaxWaveFrames == 30
MaxClips == 3
MaxColorBones == 10

Starts == {s * FrameStep : s \in 0..MaxStartSteps}
Durations == {d * FrameStep : d \in 1..MaxDurSteps}
BaseChannels == {1, MaxBase}
Heights == (-MaxHeight)..MaxHeight
Thresholds == {0, MaxThreshold}
Directions == {"BOTH", "UP", "DOWN"}
OpHeights == (-OpMaxHeight)..OpMaxHeight
Volumes == 0..VolScale
Randomness == 0..MaxRandomness
\* the settings an operator run is started with: the ends of both sliders
OpVolumes == {0, VolScale}
OpRandomness == {0, MaxRandomness}
\* scene.render.fps / fps_base, the timeline's frame rate (24.0 when it has no
\* setting) and its start frame
SceneRates == {24}
ResolveRates == {24, 48}
ResolveStarts == {0, 10}
\* The armature's pose bones, in iteration order.
BoneNames == [k \in 1..MaxBones |-> k]
\* Python's None, and a height held where None may be held: <<>> and <<z>>.
None == <<>>
Some(z) == <<z>>

VARIABLES
  caller,            \* who runs the scheduler: "VSE" (strips of the sequencer) or "RESOLVE" (mock strips)
  clip_data,         \* compute_resolve_...: the (frame, duration_frames) pairs, in input order
  strips,            \* the list handed to separate_overlapping_strips: records with a mutable channel
  base_channel,      \* base_channel / base_track
  sorted_strips,     \* sorted(strips, key=start): indices into strips
  channel_strips,    \* dict channel -> list of (indices of) strips placed on it
  strip_idx,         \* position of the for-loop in sorted_strips
  test_channel,      \* the while-loop's candidate channel
  sep_pc,            \* "idle" | "mock" | "call" | "loop" | "returned" | "done"
  assign_count,      \* per strip: how many times strip.channel was assigned by the scheduler
  track_assignments, \* compute_resolve_...: the returned list
  pose_bones,        \* detect_z_crossings: the monitored bones, in iteration order
  threshold,         \* z_crossing_threshold
  direction,         \* z_crossing_direction: "BOTH" | "UP" | "DOWN"
  frame_start,       \* scene.frame_start
  frame_end,         \* scene.frame_end
  frame,             \* the scan's loop variable: the next frame of range(frame_start, frame_end + 1)
  prev_z,            \* dict bone -> height at the frame before (Some(z)), or None
  crossing_data,     \* dict frame -> <<crossing_speed, bone>>
  frame_current,     \* scene.frame_current, moved by scene.frame_set
  height_range,      \* the animation: the heights a bone's tail can have at a frame
  pos,               \* the heights sampled so far, one entry [bone -> world_z] per scanned frame
  det_pc,            \* "idle" | "call" | "scan" | "returned" | "raised"
  op,                \* the operator that runs: "NONE" | "VSE" | "RESOLVE"
  op_pc,             \* "idle" | "detect" | "place" | "separate" | "separating" | "assign" | "assigning" | "append" | "done"
  result,            \* "NONE" | "FINISHED" | "CANCELLED" | "EXCEPTION"
  reports,           \* how many reports of each level the run made
  armature,          \* settings.z_crossing_armature: what the name stands for
  sound_folder,      \* settings.sound_folder: "UNSET" | "NOT_DIR" | "DIR"
  available_sound_files,
  selection_mode,    \* settings.sound_selection_mode
  sound_filename,    \* settings.sound_file as the run read it ('NONE' when it did not)
  sound_path,
  original_frame,
  crossing_frames, min_speed, max_speed, speed_range,
  volume_slowest, volume_fastest, volume_randomness,
  event_idx,         \* position of the placement loops
  last_event,        \* what the last iteration of a placement loop computed
  new_strips,        \* VSE: the strips of this run (indices into sed_strips)
  inserted_count,
  usable_sound_paths,
  sound_durations,   \* Resolve: seconds of each usable sound, cached before the loop
  media_pool_clips,  \* Resolve: the clips in the order the run registered them
  resolved_sound_clips,  \* Resolve: the clip found for each sound path (NoClip: none)
  placements, placed_count, blender_fps, resolve_fps, resolve_start,
  sed_strips,        \* the sequencer's strips
  timeline_tracks,   \* Resolve: the audio tracks' item lists
  channel,           \* InsertGeigerSound: the channel of its strips
  current_frame,     \* InsertGeigerSound: scene.frame_current as the run read it
  frame_offset,      \* InsertGeigerSound: where the next strip starts
  sound_frames,      \* the length in frames the sequencer gives a strip of the bundled sound
  bone_color_map,    \* dict bone name -> colour index
  color_call         \* the last call of get_bone_color_index: <<bone_name, returned index>>

schedVars == <<caller, clip_data, strips, base_channel, sorted_strips, channel_strips,
               strip_idx, test_channel, sep_pc, assign_count, track_assignments>>

detVars == <<pose_bones, threshold, direction, frame_start, frame_end, frame, prev_z,
             crossing_data, frame_current, height_range, pos, det_pc>>

runVars == <<crossing_frames, min_speed, max_speed, speed_range, volume_slowest, volume_fastest,
             volume_randomness, event_idx, last_event, new_strips, inserted_count,
             usable_sound_paths, sound_durations, media_pool_clips, resolved_sound_clips,
             placements, placed_count, blender_fps, resolve_fps, resolve_start>>
worldVars == <<sed_strips, timeline_tracks>>
geigerVars == <<channel, current_frame, frame_offset, sound_frames>>
colorVars == <<bone_color_map, color_call>>
hdrVars == <<op, armature, sound_folder, available_sound_files, selection_mode, sound_filename,
             sound_path, original_frame>>
scanVars == <<pose_bones, threshold, direction, frame_start, frame_end, frame,
              crossing_data, height_range, det_pc>>
opVars == <<op, op_pc, result, reports, armature, sound_folder, available_sound_files,
            selection_mode, sound_filename, sound_path, original_frame, runVars, worldVars,
            geigerVars, colorVars>>
vars == <<schedVars, detVars, opVars>>

\* ------------------------------------------------------------ the scheduler

\* A strip as the scheduler sees it (ResolvePlacementStrip, or a sequencer sound strip).
Strip(start, end, ch) == [frame_final_start |-> start, frame_final_end |-> end, channel |-> ch]

\* strips_overlap with both ends swapped in the second comparison.
StripsOverlapSwapped(strip1, strip2) ==
  strip1.frame_final_start < strip2.frame_final_end /\ strip2.frame_final_end < strip1.frame_final_start

\* strips_overlap that also counts touching strips.
StripsOverlapClosed(strip1, strip2) ==
  strip1.frame_final_start <= strip2.frame_final_end /\ strip2.frame_final_start <= strip1.frame_final_end

\* strips_overlap that holds only when the first strip ends no later than the second.
StripsOverlapIfShorter(strip1, strip2) ==
  /\ strip1.frame_final_start < strip2.frame_final_end
  /\ strip2.frame_final_start < strip1.frame_final_end
  /\ strip1.frame_final_end <= strip2.frame_final_end

\* strips_overlap(strip1, strip2): start1 < end2 and start2 < end1.
StripsOverlap(strip1, strip2) ==
  strip1.frame_final_start < strip2.frame_final_end /\ strip2.frame_final_start < strip1.frame_final_end

\* The step of a sort that is not stable: index i goes before the entries with
\* its own start.
RECURSIVE InsertBeforeTies(_, _, _)
InsertBeforeTies(ss, s, i) ==
  IF s = <<>> THEN <<i>>
  ELSE IF ss[Head(s)].frame_final_start < ss[i].frame_final_start
       THEN <<Head(s)>> \o InsertBeforeTies(ss, Tail(s), i)
       ELSE <<i>> \o s

\* Insert index i into the index list s (sorted by start) behind every entry whose
\* start is <= its own: one step of a stable sort.
RECURSIVE InsertByStart(_, _, _)
InsertByStart(ss, s, i) ==
  IF s = <<>> THEN <<i>>
  ELSE IF ss[Head(s)].frame_final_start <= ss[i].frame_final_start
       THEN <<Head(s)>> \o InsertByStart(ss, Tail(s), i)
       ELSE <<i>> \o s

RECURSIVE SortPrefix(_, _)
SortPrefix(ss, n) ==
  IF n = 0 THEN <<>> ELSE InsertByStart(ss, SortPrefix(ss, n - 1), n)

\* The input order kept: no sort at all.
SortedByStartUnsorted(ss) == [i \in 1..Len(ss) |-> i]

\* sorted(strips, key=lambda s: s.frame_final_start): Python's sort is stable.
SortedByStart(ss) == SortPrefix(ss, Len(ss))

\* The inner for-loop: does the strip overlap any strip already on the channel?
HasOverlap(ss, i, placed) == \E k \in 1..Len(placed) : StripsOverlap(ss[i], ss[placed[k]])

\* The channel test of one while-iteration: the channel is empty, or no strip on it overlaps.
Fits(ss, chs, i, ch) ==
  \/ ch \notin DOMAIN chs
  \/ ~HasOverlap(ss, i, chs[ch])

\* channel_strips after the strip is put on channel ch (new list, or append).
PutOn(chs, i, ch) ==
  IF ch \in DOMAIN chs
  THEN [chs EXCEPT ![ch] = Append(@, i)]
  ELSE [c \in DOMAIN chs \cup {ch} |-> IF c = ch THEN <<i>> ELSE chs[c]]

\* The while-loop starting one channel too high.
FirstTestChannelSkipping(base) == base + 1

\* The while-loop starting at channel 1 whatever the base channel is.
FirstTestChannelOne(base) == 1

\* test_channel = base_channel, at the top of each for-iteration.
FirstTestChannel(base) == base

\* compute_resolve_track_assignments_with_vse_logic, first statement: the mock strips.
\* mock_strips built from the pairs in reverse order.
MockStripsReversed(cd) ==
  [i \in 1..Len(cd) |-> Strip(cd[Len(cd) + 1 - i][1],
                              cd[Len(cd) + 1 - i][1] + cd[Len(cd) + 1 - i][2], 0)]

MockStrips(cd) == [i \in 1..Len(cd) |-> Strip(cd[i][1], cd[i][1] + cd[i][2], 0)]

ComputeResolveBegin ==
  /\ sep_pc = "mock"
  /\ strips' = MockStrips(clip_data)
  /\ assign_count' = [i \in 1..Len(clip_data) |-> 0]
  /\ sep_pc' = "call"
  /\ UNCHANGED <<caller, clip_data, base_channel, sorted_strips, channel_strips,
                 strip_idx, test_channel, track_assignments>>

\* separate_overlapping_strips up to the first for-iteration: the early return on
\* an empty list, the sort, the empty dict.
SeparateBegin ==
  /\ sep_pc = "call"
  /\ IF strips = <<>>
     THEN /\ sep_pc' = "returned"
          /\ UNCHANGED <<sorted_strips, channel_strips, strip_idx, test_channel>>
     ELSE /\ sorted_strips' = SortedByStart(strips)
          /\ channel_strips' = <<>>
          /\ strip_idx' = 1
          /\ test_channel' = FirstTestChannel(base_channel)
          /\ sep_pc' = "loop"
  /\ UNCHANGED <<caller, clip_data, strips, base_channel, assign_count, track_assignments>>

\* A variant that goes up two channels at a time.
NextTestChannelByTwo(c) == c + 2

\* A variant that tries the same channel again.
NextTestChannelSame(c) == c

\* Try next channel: test_channel += 1
NextTestChannel(c) == c + 1

\* One iteration of the while-loop for the strip at strip_idx: place it on
\* test_channel and go on to the next strip, or try the next channel.
SeparateTry ==
  /\ sep_pc = "loop"
  /\ LET i == sorted_strips[strip_idx] IN
     IF Fits(strips, channel_strips, i, test_channel)
     THEN /\ channel_strips' = PutOn(channel_strips, i, test_channel)
          /\ strips' = [strips EXCEPT ![i].channel = test_channel]
          /\ assign_count' = [assign_count EXCEPT ![i] = @ + 1]
          /\ strip_idx' = strip_idx + 1
          /\ test_channel' = FirstTestChannel(base_channel)
          /\ sep_pc' = IF strip_idx = Len(sorted_strips) THEN "returned" ELSE "loop"
     ELSE /\ test_channel' = NextTestChannel(test_channel)
          /\ UNCHANGED <<channel_strips, strips, assign_count, strip_idx, sep_pc>>
  /\ UNCHANGED <<caller, clip_data, base_channel, sorted_strips, track_assignments>>

\* Back in the caller: compute_resolve_... returns the channels in input order;
\* the sequencer's strips simply keep theirs.
SeparateReturn ==
  /\ sep_pc = "returned"
  /\ track_assignments' = IF caller = "RESOLVE"
                          THEN [i \in 1..Len(strips) |-> strips[i].channel]
                          ELSE track_assignments
  /\ sep_pc' = "done"
  /\ UNCHANGED <<caller, clip_data, strips, base_channel, sorted_strips, channel_strips,
                 strip_idx, test_channel, assign_count>>


\* ------------------------------------------------------- the crossing detector

Abs(x) == IF x < 0 THEN -x ELSE x

\* The UP test with a strict comparison of the current height.
CrossedUpStrict(prev, cur, thr) == prev < thr /\ cur > thr

\* bone_prev_z < threshold and world_z >= threshold
CrossedUp(prev, cur, thr) == prev < thr /\ cur >= thr

\* The DOWN test counting a bone that leaves the threshold downwards.
CrossedDownLeaving(prev, cur, thr) == prev >= thr /\ cur < thr

\* bone_prev_z > threshold and world_z <= threshold
CrossedDown(prev, cur, thr) == prev > thr /\ cur <= thr

\* The if/elif/else over direction: BOTH, UP, otherwise DOWN.
Crossed(dir, prev, cur, thr) ==
  IF dir = "BOTH" THEN CrossedUp(prev, cur, thr) \/ CrossedDown(prev, cur, thr)
  ELSE IF dir = "UP" THEN CrossedUp(prev, cur, thr)
  ELSE CrossedDown(prev, cur, thr)

\* A recorded crossing is replaced by one that is as fast.
ReplacesOnTie(cd, f, speed) == f \notin DOMAIN cd \/ speed >= cd[f][1]

\* frame not in crossing_data or crossing_speed > crossing_data[frame][0]
Replaces(cd, f, speed) == f \notin DOMAIN cd \/ speed > cd[f][1]

\* crossing_data[frame] = (crossing_speed, pose_bone.name)
Record(cd, f, speed, bone) ==
  [g \in DOMAIN cd \cup {f} |-> IF g = f THEN <<speed, bone>> ELSE cd[g]]

\* The inner loop over pose_bones at one frame, from the k-th bone on: cd is
\* crossing_data so far, prev the heights one frame before, z the heights now.
RECURSIVE ScanBones(_, _, _, _, _, _, _, _)
ScanBones(cd, bones, dir, thr, f, prev, z, k) ==
  IF k > Len(bones) THEN cd
  ELSE LET b == bones[k]
           crossed == prev[b] # None /\ Crossed(dir, prev[b][1], z[b], thr)
           crossing_speed == Abs(z[b] - prev[b][1])
           cd2 == IF crossed /\ Replaces(cd, f, crossing_speed)
                  THEN Record(cd, f, crossing_speed, b)
                  ELSE cd
       IN ScanBones(cd2, bones, dir, thr, f, prev, z, k + 1)

\* prev_z with every bone already at the lowest height.
InitialPrevZLowest(bones) == [b \in {bones[k] : k \in 1..Len(bones)} |-> Some(-MaxHeight)]

\* prev_z with every bone already at height 0.
InitialPrevZZero(bones) == [b \in {bones[k] : k \in 1..Len(bones)} |-> Some(0)]

\* prev_z = {bone.name: None for bone in pose_bones}
InitialPrevZ(bones) == [b \in {bones[k] : k \in 1..Len(bones)} |-> None]

\* detect_z_crossings, before the loop; an empty range returns at once.
DetectBegin ==
  /\ det_pc = "call"
  /\ crossing_data' = <<>>
  /\ prev_z' = InitialPrevZ(pose_bones)
  /\ frame' = frame_start
  /\ det_pc' = IF frame_start > frame_end THEN "returned" ELSE "scan"
  /\ UNCHANGED <<pose_bones, threshold, direction, frame_start, frame_end, frame_current,
                 height_range, pos>>

\* One iteration of the frame loop: scene.frame_set(frame), then every bone's
\* tail height is read (any heights in height_range: the animation is the environment's),
\* tested against the threshold and stored in prev_z.  After the last frame of
\* the range crossing_data is returned.
ScanFrame ==
  /\ det_pc = "scan"
  /\ frame <= frame_end
  /\ \E z \in [DOMAIN prev_z -> height_range] :
       /\ crossing_data' = ScanBones(crossing_data, pose_bones, direction, threshold,
                                     frame, prev_z, z, 1)
       /\ prev_z' = [b \in DOMAIN prev_z |-> Some(z[b])]
       /\ pos' = Append(pos, z)
  /\ frame_current' = frame
  /\ frame' = frame + 1
  /\ det_pc' = IF frame = frame_end THEN "returned" ELSE "scan"
  /\ UNCHANGED <<pose_bones, threshold, direction, frame_start, frame_end, height_range>>

\* ------------------------------------------------------------ the operators

\* Exact rationals <<numerator, denominator>>, denominator > 0.
RECURSIVE Gcd(_, _)
Gcd(a, b) == IF b = 0 THEN a ELSE Gcd(b, a % b)
Rat(n, d) == LET g == Gcd(Abs(n), d) IN <<n \div g, d \div g>>
RatAdd(a, b) == Rat(a[1] * b[2] + b[1] * a[2], a[2] * b[2])
RatSub(a, b) == Rat(a[1] * b[2] - b[1] * a[2], a[2] * b[2])
RatMul(a, b) == Rat(a[1] * b[1], a[2] * b[2])
RatEq(a, b) == a[1] * b[2] = b[1] * a[2]
RatLeq(a, b) == a[1] * b[2] <= b[1] * a[2]
\* A volume setting v in 0..VolScale stands for v / VolScale.
Vol(v) == Rat(v, VolScale)

\* What a folder can hold, and sorted() of it.
FileNames == {"a.wav", "b.mp3", "notes.txt"}
FilesSorted == <<"a.wav", "b.mp3", "notes.txt">>
\* os.path.splitext(filename)[1].lower()
SplitExt(filename) ==
  CASE filename = "a.wav" -> ".wav"
    [] filename = "b.mp3" -> ".mp3"
    [] filename = "geiger_counter_sound.wav" -> ".wav"
    [] OTHER -> ".txt"
SUPPORTED_AUDIO_EXTENSIONS == {".wav", ".mp3", ".ogg", ".flac", ".aiff", ".aif"}
\* The sound's length in scene frames, as the sequencer computes it for a new strip.
SoundFrames(filepath) == IF filepath = "b.mp3" THEN 2 ELSE 1

ArmatureStates == {"NONE", "NOT_ARMATURE", "ARMATURE"}
FolderStates == {"UNSET", "NOT_DIR", "DIR"}
SelectionModes == {"RANDOM", "SINGLE"}
NoPath == "None"

\* get_sound_files_from_folder(folder_path): the sorted names with a supported
\* extension; [] for no folder and for a path that is not a directory.
IsSupported(listing, filename) ==
  filename \in listing /\ SplitExt(filename) \in SUPPORTED_AUDIO_EXTENSIONS

GetSoundFilesFromFolder(folder, listing) ==
  IF folder # "DIR"
  THEN <<>>
  ELSE LET Keep(filename) == IsSupported(listing, filename)
       IN SelectSeq(FilesSorted, Keep)

Range(s) == {s[i] : i \in 1..Len(s)}

\* self.report(level, ...)
Report(r, level) == [r EXCEPT ![level] = @ + 1]
NoReports == [ERROR |-> 0, WARNING |-> 0, INFO |-> 0]

\* A variant that returns the lowest channel without a strip.
FirstFreeChannel(ss) ==
  CHOOSE c \in 1..(Len(ss) + 1) :
    /\ \A i \in 1..Len(ss) : ss[i].channel # c
    /\ \A d \in 1..(c - 1) : \E i \in 1..Len(ss) : ss[i].channel = d

\* find_next_available_channel(sed)
MaxChannel(ss) == CHOOSE c \in {ss[i].channel : i \in 1..Len(ss)} :
                    \A i \in 1..Len(ss) : ss[i].channel <= c
FindNextAvailableChannel(ss) == IF ss = <<>> THEN 1 ELSE MaxChannel(ss) + 1

\* find_next_available_audio_track(timeline): tracks is the list of the audio
\* tracks' item lists.
MaxUsedTrack(tracks) ==
  LET used == {i \in 1..Len(tracks) : tracks[i] # <<>>}
  IN IF used = {} THEN 0 ELSE CHOOSE i \in used : \A j \in used : j <= i
FindNextAvailableAudioTrack(tracks) ==
  IF Len(tracks) = 0 THEN 1 ELSE MaxUsedTrack(tracks) + 1

\* sorted(crossing_data.keys())
SortedKeys(cd) ==
  LET keys == DOMAIN cd
      RECURSIVE Asc(_)
      Asc(S) == IF S = {} THEN <<>>
                ELSE LET m == CHOOSE x \in S : \A y \in S : x <= y
                     IN <<m>> \o Asc(S \ {m})
  IN Asc(keys)

MaxOf(S) == CHOOSE x \in S : \A y \in S : y <= x
MinOf(S) == CHOOSE x \in S : \A y \in S : x <= y

\* speed_range = max_speed - min_speed if max_speed > min_speed else 1.0
SpeedRange(max, min) == IF max > min THEN max - min ELSE 1

\* A variant that divides the speed by the fastest speed.
NormalizedSpeedOfFastest(crossing_speed, min, range) ==
  IF range > 0 THEN Rat(crossing_speed, min + range) ELSE Rat(1, 1)

\* normalized_speed: (crossing_speed - min_speed) / speed_range if speed_range > 0, else 1.0
NormalizedSpeed(crossing_speed, min, range) ==
  IF range > 0 THEN Rat(crossing_speed - min, range) ELSE Rat(1, 1)

\* base_volume = volume_slowest + normalized_speed * (volume_fastest - volume_slowest)
BaseVolume(crossing_speed, min, range, slowest, fastest) ==
  RatAdd(Vol(slowest),
         RatMul(NormalizedSpeed(crossing_speed, min, range), RatSub(Vol(fastest), Vol(slowest))))

\* A variant that varies the volume to both sides of base_volume.
GetRandomVolumeAround(base_volume, randomness, u) ==
  IF randomness <= 0
  THEN base_volume
  ELSE LET min_volume == RatMul(base_volume, RatSub(Rat(1, 1), Vol(randomness)))
           max_volume == RatMul(base_volume, RatAdd(Rat(1, 1), Vol(randomness)))
       IN RatAdd(min_volume, RatMul(Rat(u, UniformSteps), RatSub(max_volume, min_volume)))

\* get_random_volume(base_volume, randomness); u in 0..UniformSteps picks the point
\* min_volume + (u / UniformSteps) * (base_volume - min_volume) of random.uniform.
GetRandomVolume(base_volume, randomness, u) ==
  IF randomness <= 0
  THEN base_volume
  ELSE LET min_volume == RatMul(base_volume, RatSub(Rat(1, 1), Vol(randomness)))
       IN RatAdd(min_volume, RatMul(Rat(u, UniformSteps), RatSub(base_volume, min_volume)))

UniformDraws(randomness) == IF randomness <= 0 THEN {UniformSteps} ELSE 0..UniformSteps

\* The settings' sound_filename: one of the enum's items, or 'NONE'.
SoundFileItems(folder, listing) == {"NONE"} \cup Range(GetSoundFilesFromFolder(folder, listing))

\* The run ends before the scan: report ERROR, return {'CANCELLED'}.
CancelWithError ==
  /\ reports' = Report(NoReports, "ERROR")
  /\ result' = "CANCELLED"
  /\ op_pc' = "done"
  /\ UNCHANGED <<original_frame, detVars>>

\* The run reaches detect_z_crossings(scene, armature_obj, pose_bones, threshold,
\* direction, frame_start, frame_end) over the scene's range and animation.
CallDetect(nbones, dir, last) ==
  /\ reports' = NoReports
  /\ result' = "NONE"
  /\ op_pc' = "detect"
  /\ original_frame' = frame_current
  /\ pose_bones' = SubSeq(BoneNames, 1, nbones)
  /\ threshold' = 0
  /\ direction' = dir
  /\ frame_start' = 1
  /\ frame_end' = last
  /\ height_range' = OpHeights
  /\ det_pc' = "call"
  /\ UNCHANGED <<frame, prev_z, crossing_data, frame_current, pos>>

\* VSE_OT_AddSoundsAtZCrossings.execute up to the call of detect_z_crossings.
StartVSE(arm, folder, listing, mode, sfile, bundled, nbones, dir, last) ==
  LET files == GetSoundFilesFromFolder(folder, listing)
      configured == IF folder = "DIR" /\ mode = "SINGLE" /\ sfile # "NONE" THEN sfile
                    ELSE IF folder = "DIR" /\ mode = "RANDOM" THEN "RANDOM_MODE"
                    ELSE NoPath
      fallback == mode = "SINGLE" /\ configured = NoPath
      path == IF fallback THEN "geiger_counter_sound.wav" ELSE configured
  IN /\ op' = "VSE"
     /\ armature' = arm
     /\ sound_folder' = folder
     /\ selection_mode' = mode
     /\ sound_filename' = IF arm = "ARMATURE" /\ folder = "DIR" /\ mode = "SINGLE"
                         THEN sfile ELSE "NONE"
     /\ available_sound_files' = IF arm = "ARMATURE" THEN files ELSE <<>>
     /\ sound_path' = IF arm = "ARMATURE" THEN path ELSE NoPath
     /\ IF arm # "ARMATURE" THEN CancelWithError
        ELSE IF folder = "DIR" /\ mode = "RANDOM" /\ files = <<>> THEN CancelWithError
        ELSE IF fallback /\ ~bundled THEN CancelWithError
        ELSE IF nbones = 0 THEN CancelWithError
        ELSE CallDetect(nbones, dir, last)

\* VSE_OT_SendSoundsToDaVinciResolve.execute up to the call of detect_z_crossings.
StartResolve(arm, folder, listing, mode, sfile, nbones, dir, last) ==
  LET files == GetSoundFilesFromFolder(folder, listing)
      valid == arm = "ARMATURE" /\ folder = "DIR" /\ files # <<>>
  IN /\ op' = "RESOLVE"
     /\ armature' = arm
     /\ sound_folder' = folder
     /\ selection_mode' = mode
     /\ sound_filename' = IF valid /\ mode = "SINGLE" THEN sfile ELSE "NONE"
     /\ available_sound_files' = IF arm = "ARMATURE" /\ folder = "DIR" THEN files ELSE <<>>
     /\ sound_path' = IF valid /\ mode = "SINGLE" /\ sfile # "NONE" THEN sfile ELSE NoPath
     /\ IF ~valid THEN CancelWithError
        ELSE IF mode = "SINGLE" /\ sfile = "NONE" THEN CancelWithError
        ELSE IF nbones = 0 THEN CancelWithError
        ELSE CallDetect(nbones, dir, last)




\* The locals of a run before they are assigned.
\* No bone has a colour.
IdleColor ==
  /\ bone_color_map = <<>>
  /\ color_call = <<>>

\* InsertGeigerSound has not run.
IdleGeiger ==
  /\ channel = 0
  /\ current_frame = 0
  /\ frame_offset = 0
  /\ sound_frames = 1

FreshRun ==
  /\ crossing_frames = <<>>
  /\ min_speed = 0
  /\ max_speed = 0
  /\ speed_range = 0
  /\ volume_slowest = 0
  /\ volume_fastest = 0
  /\ volume_randomness = 0
  /\ event_idx = 0
  /\ last_event = <<>>
  /\ new_strips = <<>>
  /\ inserted_count = 0
  /\ usable_sound_paths = <<>>
  /\ sound_durations = <<>>
  /\ media_pool_clips = <<>>
  /\ resolved_sound_clips = <<>>
  /\ placements = <<>>
  /\ placed_count = 0
  /\ blender_fps = 0
  /\ resolve_fps = 0
  /\ resolve_start = 0

\* The user invokes one of the two operators.
OpStartVSE ==
  /\ op_pc = "idle"
  /\ \E arm \in ArmatureStates, folder \in FolderStates, listing \in SUBSET FileNames,
        mode \in SelectionModes, bundled \in BOOLEAN, nbones \in 0..OpMaxBones,
        dir \in Directions, last \in 1..OpMaxFrame :
       /\ nbones * last <= OpMaxSamples
       /\ \E sfile \in SoundFileItems(folder, listing) :
            StartVSE(arm, folder, listing, mode, sfile, bundled, nbones, dir, last)
  /\ UNCHANGED <<schedVars, runVars, worldVars>>
  /\ UNCHANGED <<geigerVars, colorVars>>

OpStartResolve ==
  /\ op_pc = "idle"
  /\ \E arm \in ArmatureStates, folder \in FolderStates, listing \in SUBSET FileNames,
        mode \in SelectionModes, nbones \in 0..OpMaxBones,
        dir \in Directions, last \in 1..OpMaxFrame :
       /\ nbones * last <= OpMaxSamples
       /\ \E sfile \in SoundFileItems(folder, listing) :
            StartResolve(arm, folder, listing, mode, sfile, nbones, dir, last)
  /\ UNCHANGED <<schedVars, runVars, worldVars>>
  /\ UNCHANGED <<geigerVars, colorVars>>

\* An exception inside detect_z_crossings at the frame about to be scanned:
\* scene.frame_set raises before it moves the cursor, or a bone query raises after
\* it.  Neither execute catches it: the operator ends with the exception.
ScanRaises ==
  /\ op_pc = "detect"
  /\ det_pc = "scan"
  /\ \E moved \in BOOLEAN : frame_current' = IF moved THEN frame ELSE frame_current
  /\ det_pc' = "raised"
  /\ result' = "EXCEPTION"
  /\ op_pc' = "done"
  /\ UNCHANGED <<pose_bones, threshold, direction, frame_start, frame_end, frame, prev_z,
                 crossing_data, height_range, pos>>
  /\ UNCHANGED <<op, reports, armature, sound_folder, available_sound_files, selection_mode,
                 sound_filename, sound_path, original_frame>>
  /\ UNCHANGED <<schedVars, runVars, worldVars>>
  /\ UNCHANGED <<geigerVars, colorVars>>




\* speeds = [crossing_data[f][0] for f in crossing_frames]
Speeds(cd) == {cd[f][1] : f \in DOMAIN cd}

\* After the scan, both operators: the detector's locals are gone; the sorted
\* frames and the speed range.
Normalize ==
  /\ prev_z' = <<>>
  /\ pos' = <<>>
  /\ crossing_frames' = SortedKeys(crossing_data)
  /\ max_speed' = MaxOf(Speeds(crossing_data))
  /\ min_speed' = MinOf(Speeds(crossing_data))
  /\ speed_range' = SpeedRange(MaxOf(Speeds(crossing_data)), MinOf(Speeds(crossing_data)))

\* The run ends after the scan without placing anything; the detector's locals
\* are gone.
CancelAfterScan(level) ==
  /\ prev_z' = <<>>
  /\ pos' = <<>>
  /\ reports' = Report(reports, level)
  /\ result' = "CANCELLED"
  /\ op_pc' = "done"

\* VSE_OT_AddSoundsAtZCrossings.execute from the return of detect_z_crossings to
\* the placement loop.
OpAfterScanVSE ==
  /\ op = "VSE" /\ op_pc = "detect" /\ det_pc = "returned"
  /\ frame_current' = original_frame
  /\ IF crossing_data = <<>>
     THEN /\ CancelAfterScan("WARNING")
          /\ UNCHANGED <<runVars, base_channel, colorVars>>
     ELSE /\ Normalize
          /\ base_channel' = FindNextAvailableChannel(sed_strips)
          /\ bone_color_map' = <<>>
          /\ UNCHANGED color_call
          /\ \E slowest \in OpVolumes, fastest \in OpVolumes, randomness \in OpRandomness :
               /\ volume_slowest' = slowest
               /\ volume_fastest' = fastest
               /\ volume_randomness' = randomness
          /\ event_idx' = 1
          /\ op_pc' = "place"
          /\ UNCHANGED <<reports, result, last_event, new_strips, inserted_count,
                         usable_sound_paths, sound_durations, media_pool_clips,
                         resolved_sound_clips, placements, placed_count, blender_fps,
                         resolve_fps, resolve_start>>
  /\ UNCHANGED <<hdrVars, scanVars, worldVars>>
  /\ UNCHANGED <<caller, clip_data, strips, sorted_strips, channel_strips, strip_idx,
                 test_channel, sep_pc, assign_count, track_assignments>>
  /\ UNCHANGED geigerVars

\* The event of one placement: what the loop body computed for crossing frame f.
Event(f, sound, base_volume, final_volume, placed) ==
  [frame |-> f, crossing_speed |-> crossing_data[f][1], bone_name |-> crossing_data[f][2],
   sound |-> sound, base_volume |-> base_volume, final_volume |-> final_volume,
   placed |-> placed]

\* A variant in which a placement loop ends at the first event it fails to place.
LoopEndsAtFailure(idx, count, ok) == idx = count \/ ~ok

\* Whether a placement loop ends after its idx-th event of count: the except
\* clause and the continue go on with the next event, placed (ok) or not.
LoopEnds(idx, count, ok) == idx = count

\* A variant that gives up the run at a clip that could not be appended.
LoopResultCancelling(last, ok, before) ==
  IF ~ok THEN "CANCELLED" ELSE IF last THEN "FINISHED" ELSE before

\* What the run has returned after an event of the Resolve placement loop:
\* {'FINISHED'} after the last one, nothing yet before it, placed (ok) or not.
LoopResult(last, ok, before) == IF last THEN "FINISHED" ELSE before

\* A variant that draws from the folder's files in either mode.
CurrentSoundPathsAnyMode(mode, files, path) ==
  IF files # <<>> THEN Range(files) ELSE {path}

\* current_sound_path of the VSE loop: random.choice(available_sound_files) in
\* RANDOM mode with a non-empty list, else sound_path.
CurrentSoundPaths(mode, files, path) ==
  IF mode = "RANDOM" /\ files # <<>> THEN Range(files) ELSE {path}

\* COLOR_01 through COLOR_09
ColorCount == 9

\* A variant that counts the colours from 0.
NextColorIndexFromZero(map) == Cardinality(DOMAIN map) % ColorCount

\* next_index = (len(bone_color_map) % 9) + 1
NextColorIndex(map) == (Cardinality(DOMAIN map) % ColorCount) + 1

\* bone_color_map after get_bone_color_index(bone_name, bone_color_map)
BoneColorMapWith(bone_name, map) ==
  IF bone_name \notin DOMAIN map
  THEN [b \in DOMAIN map \cup {bone_name} |->
          IF b = bone_name THEN NextColorIndex(map) ELSE map[b]]
  ELSE map

\* get_bone_color_index(bone_name, bone_color_map): what it returns
GetBoneColorIndex(bone_name, map) == BoneColorMapWith(bone_name, map)[bone_name]

\* bone_color_map after the calls for the bones of the list, in order.
RECURSIVE MapAfterBones(_, _)
MapAfterBones(bones, map) ==
  IF bones = <<>> THEN map
  ELSE MapAfterBones(Tail(bones), BoneColorMapWith(Head(bones), map))

\* One iteration of the VSE placement loop.  new_sound raises for a path of None
\* and may raise for a file it cannot load; the except clause reports a WARNING.
OpPlaceVSE ==
  /\ op = "VSE" /\ op_pc = "place"
  /\ LET f == crossing_frames[event_idx]
         sounds == CurrentSoundPaths(selection_mode, available_sound_files, sound_path)
         base_volume == BaseVolume(crossing_data[f][1], min_speed, speed_range,
                                   volume_slowest, volume_fastest)
     IN \E current_sound_path \in sounds, u \in UniformDraws(volume_randomness),
           loads \in BOOLEAN :
          LET final_volume == GetRandomVolume(base_volume, volume_randomness, u)
              added == loads /\ current_sound_path # NoPath
              strip == [frame_final_start |-> f,
                        frame_final_end |-> f + SoundFrames(current_sound_path),
                        channel |-> base_channel,
                        bone_name |-> crossing_data[f][2],
                        volume |-> final_volume,
                        filepath |-> current_sound_path,
                        color_tag |-> GetBoneColorIndex(crossing_data[f][2], bone_color_map)]
          IN /\ last_event' = Event(f, current_sound_path, base_volume, final_volume, added)
             /\ sed_strips' = IF added THEN Append(sed_strips, strip) ELSE sed_strips
             /\ new_strips' = IF added THEN Append(new_strips, Len(sed_strips) + 1)
                              ELSE new_strips
             /\ inserted_count' = IF added THEN inserted_count + 1 ELSE inserted_count
             /\ bone_color_map' = IF added
                                  THEN BoneColorMapWith(crossing_data[f][2], bone_color_map)
                                  ELSE bone_color_map
             /\ color_call' = IF added THEN <<strip.bone_name, strip.color_tag>>
                              ELSE color_call
             /\ reports' = IF added THEN reports ELSE Report(reports, "WARNING")
             /\ op_pc' = IF LoopEnds(event_idx, Len(crossing_frames), added)
                          THEN "separate" ELSE "place"
  /\ event_idx' = event_idx + 1
  /\ UNCHANGED <<result, crossing_frames, min_speed, max_speed, speed_range, volume_slowest,
                 volume_fastest, volume_randomness, usable_sound_paths, sound_durations,
                 media_pool_clips, resolved_sound_clips, placements, placed_count, blender_fps,
                 resolve_fps, resolve_start, timeline_tracks>>
  /\ UNCHANGED <<hdrVars, detVars, schedVars>>
  /\ UNCHANGED geigerVars

\* After the loop: separate_overlapping_strips(new_strips, base_channel) is called
\* when a strip was added; otherwise the run reports and returns {'FINISHED'}.
OpSeparateVSE ==
  /\ op = "VSE" /\ op_pc = "separate"
  /\ IF new_strips # <<>>
     THEN /\ caller' = "VSE"
          /\ strips' = [i \in 1..Len(new_strips) |->
                          Strip(sed_strips[new_strips[i]].frame_final_start,
                                sed_strips[new_strips[i]].frame_final_end,
                                sed_strips[new_strips[i]].channel)]
          /\ assign_count' = [i \in 1..Len(new_strips) |-> 0]
          /\ sep_pc' = "call"
          /\ op_pc' = "separating"
          /\ UNCHANGED <<reports, result>>
     ELSE /\ reports' = Report(reports, "INFO")
          /\ result' = "FINISHED"
          /\ op_pc' = "done"
          /\ UNCHANGED <<caller, strips, assign_count, sep_pc>>
  /\ UNCHANGED <<clip_data, base_channel, sorted_strips, channel_strips, strip_idx,
                 test_channel, track_assignments>>
  /\ UNCHANGED <<hdrVars, detVars, runVars, worldVars>>
  /\ UNCHANGED <<geigerVars, colorVars>>

\* separate_overlapping_strips has returned: the new strips carry the channels it
\* assigned; the run reports and returns {'FINISHED'}.
OpFinishVSE ==
  /\ op = "VSE" /\ op_pc = "separating" /\ sep_pc = "done"
  /\ LET bones == [i \in 1..Len(new_strips) |-> sed_strips[new_strips[i]].bone_name]
         MapBefore(i) == MapAfterBones(SubSeq(bones, 1, i - 1), bone_color_map)
     IN /\ sed_strips' = [k \in 1..Len(sed_strips) |->
                            IF \E i \in 1..Len(new_strips) : new_strips[i] = k
                            THEN LET i == CHOOSE i \in 1..Len(new_strips) : new_strips[i] = k
                                 IN [sed_strips[k] EXCEPT
                                       !.channel = strips[i].channel,
                                       !.color_tag = GetBoneColorIndex(bones[i], MapBefore(i))]
                            ELSE sed_strips[k]]
        /\ bone_color_map' = MapAfterBones(bones, bone_color_map)
        /\ color_call' = LET n == Len(bones)
                         IN <<bones[n], GetBoneColorIndex(bones[n], MapBefore(n))>>
  /\ reports' = Report(reports, "INFO")
  /\ result' = "FINISHED"
  /\ op_pc' = "done"
  /\ UNCHANGED <<hdrVars, detVars, schedVars, runVars, timeline_tracks>>
  /\ UNCHANGED geigerVars

\* int(x) for a rational x >= 0
Floor(x) == x[1] \div x[2]

\* Python's float is the IEEE 754 binary64 format: a mantissa of MantissaBits
\* bits, every operation rounded to the nearest value, ties to the even mantissa.
\* A value > 0 is [limbs, exp]: the mantissa's bits after its leading 1, in
\* LimbCount digits of LimbBits bits from the most significant one, and the power
\* of two that scales the mantissa.  The integers involved stay below 2^17.
LimbBits == 13
LimbCount == 4
MantissaBits == 1 + LimbCount * LimbBits

RECURSIVE Pow2(_)
Pow2(n) == IF n = 0 THEN 1 ELSE 2 * Pow2(n - 1)

LimbBase == Pow2(LimbBits)

FloatZero == [zero |-> TRUE, limbs |-> [i \in 1..LimbCount |-> 0], exp |-> 0]

\* limbs + 1 as digits, and whether the addition overflowed.
RECURSIVE IncrementLimbs(_)
IncrementLimbs(limbs) ==
  IF limbs = <<>> THEN <<limbs, TRUE>>
  ELSE LET last == limbs[Len(limbs)]
       IN IF last < LimbBase - 1
          THEN <<[limbs EXCEPT ![Len(limbs)] = last + 1], FALSE>>
          ELSE LET rest == IncrementLimbs(SubSeq(limbs, 1, Len(limbs) - 1))
               IN <<Append(rest[1], 0), rest[2]>>

\* The float of the mantissa, rounded up by one unit of its last bit when 'up'.
Rounded(limbs, exp, up) ==
  IF ~up THEN [zero |-> FALSE, limbs |-> limbs, exp |-> exp]
  ELSE LET inc == IncrementLimbs(limbs)
       IN IF inc[2]
          THEN [zero |-> FALSE, limbs |-> [i \in 1..LimbCount |-> 0], exp |-> exp + 1]
          ELSE [zero |-> FALSE, limbs |-> inc[1], exp |-> exp]

\* The next n digits of r / den, for 0 <= r < den, and the remainder left.
RECURSIVE QuotientLimbs(_, _, _, _)
QuotientLimbs(limbs, r, den, n) ==
  IF n = 0 THEN <<limbs, r>>
  ELSE QuotientLimbs(Append(limbs, (r * LimbBase) \div den), (r * LimbBase) % den, den, n - 1)

\* The least j >= 0 with a * 2^j >= b, and the greatest j >= 0 with b * 2^j <= a.
RECURSIVE ShiftUp(_, _)
ShiftUp(a, b) == IF a >= b THEN 0 ELSE 1 + ShiftUp(2 * a, b)
RECURSIVE ShiftDown(_, _)
ShiftDown(a, b) == IF 2 * b > a THEN 0 ELSE 1 + ShiftDown(a, 2 * b)

\* a / b in floats, for integers a >= 0 and b > 0 (both exact as floats)
FloatDiv(a, b) ==
  IF a = 0 THEN FloatZero
  ELSE LET lead == IF a >= b THEN ShiftDown(a, b) ELSE -ShiftUp(a, b)
           num == IF a >= b THEN a ELSE a * Pow2(-lead)
           den == IF a >= b THEN b * Pow2(lead) ELSE b
           q == QuotientLimbs(<<>>, num - den, den, LimbCount)
           up == 2 * q[2] > den \/ (2 * q[2] = den /\ q[1][LimbCount] % 2 = 1)
       IN Rounded(q[1], lead - (MantissaBits - 1), up)

\* limbs * c as digits, and the carry out of the most significant one.
RECURSIVE TimesLimbs(_, _)
TimesLimbs(limbs, c) ==
  IF limbs = <<>> THEN << <<>>, 0 >>
  ELSE LET rest == TimesLimbs(Tail(limbs), c)
           d == Head(limbs) * c + rest[2]
       IN << <<d % LimbBase>> \o rest[1], d \div LimbBase >>

\* The digits shifted right by s < LimbBits bits, 'hi' coming in from the left,
\* and the bits shifted out.
RECURSIVE ShiftRight(_, _, _)
ShiftRight(limbs, s, hi) ==
  IF limbs = <<>> THEN << <<>>, hi >>
  ELSE LET cur == hi * LimbBase + Head(limbs)
           rest == ShiftRight(Tail(limbs), s, cur % Pow2(s))
       IN << <<cur \div Pow2(s)>> \o rest[1], rest[2] >>

\* x * c in floats, for a float x >= 0 and an integer c >= 1 (exact as a float)
FloatMulInt(x, c) ==
  IF x.zero THEN FloatZero
  ELSE LET product == TimesLimbs(x.limbs, c)
           top == c + product[2]
           s == ShiftDown(top, 1)
           shifted == ShiftRight(product[1], s, top % Pow2(s))
           out == shifted[2]
           up == 2 * out > Pow2(s)
                   \/ (s > 0 /\ 2 * out = Pow2(s) /\ shifted[1][LimbCount] % 2 = 1)
       IN Rounded(shifted[1], x.exp + s, up)

RECURSIVE DigitsToInt(_)
DigitsToInt(digits) ==
  IF digits = <<>> THEN 0
  ELSE DigitsToInt(SubSeq(digits, 1, Len(digits) - 1)) * LimbBase + digits[Len(digits)]

\* int(x) for a float x >= 0 below 2^31
FloatTrunc(x) ==
  IF x.zero \/ -x.exp >= MantissaBits THEN 0
  ELSE LET whole == (-x.exp) \div LimbBits
           part == (-x.exp) % LimbBits
           kept == ShiftRight(SubSeq(x.limbs, 1, LimbCount - whole), part, 1 % Pow2(part))
       IN DigitsToInt(<<1 \div Pow2(part)>> \o kept[1])

\* A variant that converts in exact arithmetic.
ResolveFrameExact(f, first, bfps, rfps, start) ==
  start + Floor(RatMul(Rat(f - first, bfps), Rat(rfps, 1)))

\* seconds_from_start = (frame - frame_start) / blender_fps
\* resolve_frame = resolve_start + int(seconds_from_start * resolve_fps)
ResolveFrame(f, first, bfps, rfps, start) ==
  start + FloatTrunc(FloatMulInt(FloatDiv(f - first, bfps), rfps))

\* What decoding finds in a file: for a WAV file that wave.open can read,
\* <<getnframes(), getframerate()>>; from the audio backend, the sound's length
\* as the fraction <<n, d>>; None where the file cannot be read.
WaveInfo(fp) == IF fp = "a.wav" THEN <<1838, 44100>> ELSE None
BackendLength(fp) == IF fp = "b.mp3" THEN <<3676, 44100>> ELSE None

\* get_audio_duration_seconds(filepath): nframes / framerate of a readable WAV
\* file (a framerate of 0 raises, which is caught), else the backend's length if
\* it is positive, else 1.0.
GetAudioDurationSeconds(ext, wave, length) ==
  IF ext = ".wav" /\ wave # None /\ wave[2] # 0
  THEN FloatDiv(wave[1], wave[2])
  ELSE IF length # None /\ length[1] > 0
       THEN FloatDiv(length[1], length[2])
       ELSE FloatDiv(1, 1)

\* sound_durations: the cache over usable_sound_paths; 'decodable' says whether
\* this machine can read the files at all.
SoundDurations(paths, decodable) ==
  [fp \in Range(paths) |->
     GetAudioDurationSeconds(SplitExt(fp), IF decodable THEN WaveInfo(fp) ELSE None,
                             IF decodable THEN BackendLength(fp) ELSE None)]

\* File and clip names as their characters.
Chars(s) ==
  CASE s = "a.wav" -> <<"a", ".", "w", "a", "v">>
    [] s = "b.mp3" -> <<"b", ".", "m", "p", "3">>
    [] s = "a.mp3" -> <<"a", ".", "m", "p", "3">>
    [] s = "xa.wav" -> <<"x", "a", ".", "w", "a", "v">>
    [] s = "wav" -> <<"w", "a", "v">>
    [] OTHER -> <<>>

\* The last position of character ch in s, 0 when there is none.
LastIndexOf(s, ch) ==
  IF \E i \in 1..Len(s) : s[i] = ch
  THEN CHOOSE i \in 1..Len(s) : s[i] = ch /\ \A j \in (i + 1)..Len(s) : s[j] # ch
  ELSE 0

\* os.path.basename(path)
Basename(path) == SubSeq(path, LastIndexOf(path, "/") + 1, Len(path))

\* os.path.splitext(name)[0]: up to the last dot, unless only dots precede it
Stem(name) ==
  LET dot == LastIndexOf(name, ".")
  IN IF dot > 0 /\ \E j \in 1..(dot - 1) : name[j] # "."
     THEN SubSeq(name, 1, dot - 1)
     ELSE name

\* sub in s
Contains(s, sub) ==
  \E i \in 0..(Len(s) - Len(sub)) : SubSeq(s, i + 1, i + Len(sub)) = sub

\* A dict is the sequence of its <<key, value>> items in insertion order.
NoClip == 0
Get(d, key) ==
  IF \E i \in 1..Len(d) : d[i][1] = key
  THEN d[CHOOSE i \in 1..Len(d) : d[i][1] = key][2]
  ELSE NoClip

\* A variant that replaces the value of a key that is present.
SetLatest(d, key, value) ==
  IF \E i \in 1..Len(d) : d[i][1] = key
  THEN [i \in 1..Len(d) |-> IF d[i][1] = key THEN <<key, value>> ELSE d[i]]
  ELSE Append(d, <<key, value>>)

\* d.setdefault(key, value)
SetDefault(d, key, value) ==
  IF \E i \in 1..Len(d) : d[i][1] = key THEN d ELSE Append(d, <<key, value>>)

\* clip_by_path, clip_by_name, clip_by_stem after registering clips k, k + 1, ...
\* in order: the imported clips first, then the clips of the media pool scan.  A
\* clip is [name, path], '' where it has none, and is known by its position.
RECURSIVE RegisterClips(_, _, _)
RegisterClips(clips, k, lookup) ==
  IF k > Len(clips) THEN lookup
  ELSE LET clip_name == clips[k].name
           clip_path == clips[k].path
       IN RegisterClips(clips, k + 1,
            [by_path |-> IF clip_path # "" THEN SetDefault(lookup.by_path, clip_path, k)
                         ELSE lookup.by_path,
             by_name |-> IF clip_name # "" THEN SetDefault(lookup.by_name, Chars(clip_name), k)
                         ELSE lookup.by_name,
             by_stem |-> IF clip_name # ""
                         THEN SetDefault(lookup.by_stem, Stem(Chars(clip_name)), k)
                         ELSE lookup.by_stem])

BuildLookup(clips) ==
  RegisterClips(clips, 1, [by_path |-> <<>>, by_name |-> <<>>, by_stem |-> <<>>])

\* find_resolve_media_clip(sound_path, clip_by_path, clip_by_name, clip_by_stem)
FindResolveMediaClip(norm_path, lookup) ==
  LET base_name == Basename(Chars(norm_path))
      base_stem == Stem(base_name)
      Near(i) == \/ Contains(lookup.by_name[i][1], base_name)
                 \/ Contains(base_name, lookup.by_name[i][1])
  IN IF Get(lookup.by_path, norm_path) # NoClip THEN Get(lookup.by_path, norm_path)
     ELSE IF Get(lookup.by_name, base_name) # NoClip
          THEN Get(lookup.by_name, base_name)
     ELSE IF Get(lookup.by_stem, base_stem) # NoClip THEN Get(lookup.by_stem, base_stem)
     ELSE IF \E i \in 1..Len(lookup.by_name) : Near(i)
          THEN lookup.by_name[CHOOSE i \in 1..Len(lookup.by_name) :
                                Near(i) /\ \A j \in 1..(i - 1) : ~Near(j)][2]
     ELSE NoClip

\* resolved_sound_clips = {sp: find_resolve_media_clip(sp, ...) for sp in all_sound_paths}
ResolvedSoundClips(paths, clips) ==
  [sp \in Range(paths) |-> FindResolveMediaClip(sp, BuildLookup(clips))]

\* The clips of the sound files that ImportMedia took in, named after the files.
ImportedClips(paths) == [i \in 1..Len(paths) |-> [name |-> paths[i], path |-> paths[i]]]

\* dur_frames = max(1, int(dur_sec * resolve_fps))
DurFrames(dur_sec, rfps) ==
  LET n == FloatTrunc(FloatMulInt(dur_sec, rfps)) IN IF n > 1 THEN n ELSE 1

\* The usable paths taken to be all requested paths.
UsableSoundPathsAll(paths, resolved) == paths

\* usable_sound_paths = [sp for sp, clip in resolved_sound_clips.items()
\*                       if clip is not None]
UsableSoundPaths(paths, resolved) ==
  LET Keep(p) == resolved[p] # NoClip IN SelectSeq(paths, Keep)

\* all_sound_paths (every listed file exists)
AllSoundPaths == IF selection_mode = "SINGLE" THEN <<sound_path>> ELSE available_sound_files

\* VSE_OT_SendSoundsToDaVinciResolve.execute from the return of detect_z_crossings
\* to the placement list: restore the cursor, normalise, connect, import, resolve
\* the media clips.  connected: connect_to_davinci_resolve did not raise;
\* resolved: the paths find_resolve_media_clip found a clip for.
OpAfterScanResolve ==
  /\ op = "RESOLVE" /\ op_pc = "detect" /\ det_pc = "returned"
  /\ frame_current' = original_frame
  /\ IF crossing_data = <<>>
     THEN /\ CancelAfterScan("WARNING")
          /\ UNCHANGED runVars
     ELSE \E connected \in BOOLEAN, imported \in SUBSET Range(AllSoundPaths),
             rfps \in ResolveRates, start \in ResolveStarts, bfps \in SceneRates,
             decodable \in BOOLEAN :
            LET clips == LET Taken(p) == p \in imported
                         IN ImportedClips(SelectSeq(AllSoundPaths, Taken))
                resolved == ResolvedSoundClips(AllSoundPaths, clips)
                usable == UsableSoundPaths(AllSoundPaths, resolved)
                failed == \/ ~connected
                          \/ usable = <<>>
                          \/ selection_mode = "SINGLE" /\ sound_path \notin Range(usable)
            IN /\ Normalize
               /\ IF failed
                  THEN /\ reports' = IF connected
                                     THEN Report(Report(reports, "INFO"), "ERROR")
                                     ELSE Report(reports, "ERROR")
                       /\ result' = "CANCELLED"
                       /\ op_pc' = "done"
                       /\ UNCHANGED <<volume_slowest, volume_fastest, volume_randomness,
                                      event_idx, usable_sound_paths, sound_durations,
                                      media_pool_clips, resolved_sound_clips, blender_fps,
                                      resolve_fps, resolve_start>>
                  ELSE /\ reports' = Report(reports, "INFO")
                       /\ usable_sound_paths' = usable
                       /\ sound_durations' = SoundDurations(usable, decodable)
                       /\ media_pool_clips' = clips
                       /\ resolved_sound_clips' = resolved
                       /\ blender_fps' = bfps
                       /\ resolve_fps' = rfps
                       /\ resolve_start' = start
                       /\ \E slowest \in OpVolumes, fastest \in OpVolumes,
                             randomness \in OpRandomness :
                            /\ volume_slowest' = slowest
                            /\ volume_fastest' = fastest
                            /\ volume_randomness' = randomness
                       /\ event_idx' = 1
                       /\ op_pc' = "place"
                       /\ UNCHANGED result
               /\ UNCHANGED <<last_event, new_strips, inserted_count, placements, placed_count>>
  /\ UNCHANGED <<hdrVars, scanVars, worldVars, schedVars>>
  /\ UNCHANGED <<geigerVars, colorVars>>

\* One iteration of the loop that builds the placement list.
OpBuildPlacement ==
  /\ op = "RESOLVE" /\ op_pc = "place"
  /\ LET f == crossing_frames[event_idx]
         sounds == IF selection_mode = "RANDOM" THEN Range(usable_sound_paths)
                   ELSE {sound_path}
         base_volume == BaseVolume(crossing_data[f][1], min_speed, speed_range,
                                   volume_slowest, volume_fastest)
     IN \E current_sound_path \in sounds, u \in UniformDraws(volume_randomness) :
          LET final_volume == GetRandomVolume(base_volume, volume_randomness, u)
              resolve_frame == ResolveFrame(f, frame_start, blender_fps, resolve_fps,
                                            resolve_start)
              dur_sec == IF current_sound_path \in DOMAIN sound_durations
                         THEN sound_durations[current_sound_path]
                         ELSE FloatDiv(1, 1)
              dur_frames == DurFrames(dur_sec, resolve_fps)
          IN /\ last_event' = Event(f, current_sound_path, base_volume, final_volume, FALSE)
             /\ placements' = Append(placements,
                                     <<resolve_frame, dur_frames, current_sound_path,
                                       crossing_data[f][2], final_volume>>)
  /\ event_idx' = event_idx + 1
  /\ op_pc' = IF event_idx = Len(crossing_frames) THEN "assign" ELSE "place"
  /\ UNCHANGED <<reports, result, crossing_frames, min_speed, max_speed, speed_range,
                 volume_slowest, volume_fastest, volume_randomness, new_strips, inserted_count,
                 usable_sound_paths, sound_durations, media_pool_clips, resolved_sound_clips,
                 placed_count, blender_fps, resolve_fps, resolve_start>>
  /\ UNCHANGED <<hdrVars, detVars, schedVars, worldVars>>
  /\ UNCHANGED <<geigerVars, colorVars>>

\* base_track = find_next_available_audio_track(timeline) and the call of
\* compute_resolve_track_assignments_with_vse_logic(clip_frame_data, base_track).
OpAssignTracks ==
  /\ op = "RESOLVE" /\ op_pc = "assign"
  /\ caller' = "RESOLVE"
  /\ base_channel' = FindNextAvailableAudioTrack(timeline_tracks)
  /\ clip_data' = [i \in 1..Len(placements) |-> <<placements[i][1], placements[i][2]>>]
  /\ sep_pc' = "mock"
  /\ op_pc' = "assigning"
  /\ UNCHANGED <<strips, sorted_strips, channel_strips, strip_idx, test_channel,
                 assign_count, track_assignments>>
  /\ UNCHANGED <<reports, result, hdrVars, detVars, runVars, worldVars>>
  /\ UNCHANGED <<geigerVars, colorVars>>

\* max_track_needed and the AddTrack loop.
MaxTrackNeeded == IF track_assignments # <<>> THEN MaxOf(Range(track_assignments))
                  ELSE base_channel

\* The AddTrack loop stopping one track short.
TracksToAddShort(needed, current_track_count) ==
  IF needed - current_track_count - 1 > 0 THEN needed - current_track_count - 1 ELSE 0

\* range(max(0, max_track_needed - current_track_count)): the number of AddTrack
\* calls.
TracksToAdd(needed, current_track_count) ==
  IF needed - current_track_count > 0 THEN needed - current_track_count ELSE 0

\* Each timeline.AddTrack("audio") adds one empty track above the others.
OpEnsureTracks ==
  /\ op = "RESOLVE" /\ op_pc = "assigning" /\ sep_pc = "done"
  /\ timeline_tracks' =
       timeline_tracks \o
         [i \in 1..TracksToAdd(MaxTrackNeeded, Len(timeline_tracks)) |-> <<>>]
  /\ event_idx' = 1
  /\ op_pc' = "append"
  /\ UNCHANGED <<reports, result, hdrVars, detVars, schedVars, sed_strips>>
  /\ UNCHANGED <<crossing_frames, min_speed, max_speed, speed_range, volume_slowest,
                 volume_fastest, volume_randomness, last_event, new_strips, inserted_count,
                 usable_sound_paths, sound_durations, media_pool_clips, resolved_sound_clips,
                 placements, placed_count, blender_fps, resolve_fps, resolve_start>>
  /\ UNCHANGED <<geigerVars, colorVars>>

\* media_clip of the placement loop: resolved_sound_clips.get(snd_key), and a
\* second find_resolve_media_clip where that gave None.  The paths are real paths
\* already, so snd_key is snd_path.
MediaClipFor(snd_path) ==
  LET first == IF snd_path \in DOMAIN resolved_sound_clips
               THEN resolved_sound_clips[snd_path]
               ELSE NoClip
  IN IF first # NoClip THEN first
     ELSE FindResolveMediaClip(snd_path, BuildLookup(media_pool_clips))

\* One iteration of the loop that places the clips: the clip is appended at
\* recordFrame on trackIndex, or AppendToTimeline reports failure; a sound without
\* a media clip is skipped.  After the last one the run reports and returns
\* {'FINISHED'}.
OpAppend ==
  /\ op = "RESOLVE" /\ op_pc = "append"
  /\ LET p == placements[event_idx]
         track_index == track_assignments[event_idx]
         media_clip == MediaClipFor(p[3])
         found == media_clip # NoClip
     IN \E appended \in BOOLEAN :
          LET ok == found /\ appended
              last == LoopEnds(event_idx, Len(placements), ok)
              item == [recordFrame |-> p[1], duration |-> p[2], sound |-> p[3]]
          IN /\ timeline_tracks' = IF ok
                                   THEN [timeline_tracks EXCEPT ![track_index] = Append(@, item)]
                                   ELSE timeline_tracks
             /\ placed_count' = IF ok THEN placed_count + 1 ELSE placed_count
             /\ reports' = LET r == IF ok THEN reports ELSE Report(reports, "WARNING")
                           IN IF last THEN Report(r, "INFO") ELSE r
             /\ result' = LoopResult(last, ok, result)
             /\ op_pc' = IF last THEN "done" ELSE "append"
  /\ event_idx' = event_idx + 1
  /\ UNCHANGED <<hdrVars, detVars, schedVars, sed_strips>>
  /\ UNCHANGED <<crossing_frames, min_speed, max_speed, speed_range, volume_slowest,
                 volume_fastest, volume_randomness, last_event, new_strips, inserted_count,
                 usable_sound_paths, sound_durations, media_pool_clips, resolved_sound_clips,
                 placements, blender_fps, resolve_fps, resolve_start>>
  /\ UNCHANGED <<geigerVars, colorVars>>

\* The detector not in use.
IdleDetector ==
  /\ pose_bones = <<>>
  /\ threshold = 0
  /\ direction = "BOTH"
  /\ frame_start = 0
  /\ frame_end = 0
  /\ frame = 0
  /\ prev_z = <<>>
  /\ crossing_data = <<>>
  /\ frame_current = 0
  /\ height_range = {}
  /\ pos = <<>>
  /\ det_pc = "idle"

\* The scheduler not in use.
IdleScheduler ==
  /\ caller = "VSE"
  /\ clip_data = <<>>
  /\ strips = <<>>
  /\ base_channel = 1
  /\ sorted_strips = <<>>
  /\ channel_strips = <<>>
  /\ strip_idx = 0
  /\ test_channel = 0
  /\ sep_pc = "idle"
  /\ assign_count = <<>>
  /\ track_assignments = <<>>

\* The operators not in use.
IdleOp ==
  /\ op = "NONE"
  /\ op_pc = "idle"
  /\ result = "NONE"
  /\ reports = NoReports
  /\ armature = "NONE"
  /\ sound_folder = "UNSET"
  /\ available_sound_files = <<>>
  /\ selection_mode = "RANDOM"
  /\ sound_filename = "NONE"
  /\ sound_path = NoPath
  /\ original_frame = 0
  /\ FreshRun
  /\ IdleGeiger
  /\ IdleColor
  /\ sed_strips = <<>>
  /\ timeline_tracks = <<>>



\* The scenario's heights, in half units: -1, -0.5, 0.5, 1, -1, -0.5.
ScenarioHeights == <<-2, -1, 1, 2, -2, -1>>

\* Any bone list, threshold, direction and frame range within the bounds (an
\* empty bone list and an empty range included), any animation over Heights.
GeneralInputs ==
  /\ \E n \in 0..MaxBones : pose_bones = SubSeq(BoneNames, 1, n)
  /\ threshold \in Thresholds
  /\ direction \in Directions
  /\ frame_start \in 0..1
  /\ frame_end \in (frame_start - 1)..MaxFrame
  /\ Len(pose_bones) * (frame_end - frame_start + 1) <= MaxSamples
  /\ height_range = Heights

\* The scenario's setting: one bone, threshold 0, the scenario's frames, any
\* direction, any animation over the heights the scenario uses.
ScenarioInputs ==
  /\ pose_bones = <<1>>
  /\ threshold = 0
  /\ direction \in Directions
  /\ frame_start = 0
  /\ frame_end = Len(ScenarioHeights) - 1
  /\ height_range = {ScenarioHeights[k] : k \in 1..Len(ScenarioHeights)}

InitDetect ==
  /\ GeneralInputs \/ ScenarioInputs
  /\ frame = 0
  /\ prev_z = <<>>
  /\ crossing_data = <<>>
  /\ frame_current = 0
  /\ pos = <<>>
  /\ det_pc = "call"
  /\ IdleScheduler
  /\ IdleOp

NextDetect ==
  \/ DetectBegin /\ UNCHANGED <<schedVars, opVars>>
  \/ ScanFrame /\ UNCHANGED <<schedVars, opVars>>

SpecDetect == InitDetect /\ [][NextDetect]_vars

\* ------------------------------------------------------ the bone colours

\* get_bone_color_index on its own: calls for bone names 1 .. MaxColorBones in
\* any order of repetition; a name not seen before is the lowest or the highest
\* of the names not seen.
ColorBones == 1..MaxColorBones
NewBones(map) ==
  LET unseen == ColorBones \ DOMAIN map
  IN IF unseen = {} THEN {} ELSE {MinOf(unseen), MaxOf(unseen)}

\* apply_strip_color_by_bone(strip, bone_name, bone_color_map): the strip has a
\* color_tag, so get_bone_color_index is called.
ApplyStripColorByBone ==
  /\ \E bone_name \in DOMAIN bone_color_map \cup NewBones(bone_color_map) :
       /\ color_call' = <<bone_name, GetBoneColorIndex(bone_name, bone_color_map)>>
       /\ bone_color_map' = BoneColorMapWith(bone_name, bone_color_map)
  /\ UNCHANGED <<schedVars, detVars, geigerVars>>
  /\ UNCHANGED <<op, op_pc, result, reports, armature, sound_folder, available_sound_files,
                 selection_mode, sound_filename, sound_path, original_frame, runVars,
                 worldVars>>

InitColor ==
  /\ IdleScheduler
  /\ IdleDetector
  /\ IdleOp

NextColor == ApplyStripColorByBone

SpecColor == InitColor /\ [][NextColor]_vars

\* ------------------------------------------------------ the Geiger operator

GEIGER_SOUND == "geiger_counter_sound.wav"
\* for i in range(5)
GeigerCount == 5

\* A variant that takes the channel of the highest strip.
GeigerChannelHighest(ss) == IF ss # <<>> THEN MaxChannel(ss) ELSE 1

\* channel = 1; if sed.sequences: channel = max(s.channel for s in sed.sequences) + 1
GeigerChannel(ss) == IF ss # <<>> THEN MaxChannel(ss) + 1 ELSE 1

\* VSE_OT_InsertGeigerSound.execute up to its loop: the bundled file is looked
\* for (exists: what os.path.exists answers); without it the run reports an
\* ERROR and returns {'CANCELLED'}.  A missing sequence editor is created empty.
InsertGeigerBegin ==
  /\ op_pc = "idle"
  /\ op' = "GEIGER"
  /\ \E exists \in BOOLEAN :
       IF ~exists
       THEN /\ reports' = Report(NoReports, "ERROR")
            /\ result' = "CANCELLED"
            /\ op_pc' = "done"
            /\ UNCHANGED <<channel, current_frame, frame_offset, inserted_count, event_idx>>
       ELSE /\ channel' = GeigerChannel(sed_strips)
            /\ current_frame' = frame_current
            /\ inserted_count' = 0
            /\ frame_offset' = frame_current
            /\ event_idx' = 0
            /\ reports' = NoReports
            /\ result' = "NONE"
            /\ op_pc' = "insert"
  /\ UNCHANGED <<armature, sound_folder, available_sound_files, selection_mode,
                 sound_filename, sound_path, original_frame>>
  /\ UNCHANGED <<crossing_frames, min_speed, max_speed, speed_range, volume_slowest,
                 volume_fastest, volume_randomness, last_event, new_strips,
                 usable_sound_paths, sound_durations, media_pool_clips,
                 resolved_sound_clips, placements, placed_count, blender_fps, resolve_fps,
                 resolve_start>>
  /\ UNCHANGED <<sound_frames, worldVars, detVars, schedVars, colorVars>>

\* One iteration of the loop (event_idx is i): new_sound adds the strip
\* Geiger_{i+1} on the channel at frame_offset, and the next strip starts at this
\* one's frame_final_end.  After the fifth the run reports and returns {'FINISHED'}.
InsertGeigerStrip ==
  /\ op = "GEIGER" /\ op_pc = "insert"
  /\ event_idx < GeigerCount
  /\ LET strip == [name |-> event_idx + 1,
                   filepath |-> GEIGER_SOUND,
                   channel |-> channel,
                   frame_final_start |-> frame_offset,
                   frame_final_end |-> frame_offset + sound_frames]
     IN /\ sed_strips' = Append(sed_strips, strip)
        /\ frame_offset' = strip.frame_final_end
  /\ inserted_count' = inserted_count + 1
  /\ event_idx' = event_idx + 1
  /\ IF event_idx + 1 = GeigerCount
     THEN /\ reports' = Report(reports, "INFO")
          /\ result' = "FINISHED"
          /\ op_pc' = "done"
     ELSE UNCHANGED <<reports, result, op_pc>>
  /\ UNCHANGED <<crossing_frames, min_speed, max_speed, speed_range, volume_slowest,
                 volume_fastest, volume_randomness, last_event, new_strips,
                 usable_sound_paths, sound_durations, media_pool_clips,
                 resolved_sound_clips, placements, placed_count, blender_fps, resolve_fps,
                 resolve_start>>
  /\ UNCHANGED <<channel, current_frame, sound_frames, timeline_tracks, colorVars>>
  /\ UNCHANGED <<hdrVars, detVars, schedVars>>

\* The sequencer before the run: no strip, or up to two strips of earlier work on
\* any channels up to MaxBase + 1.
EarlierStrip(c) == [name |-> 0, filepath |-> "a.wav", channel |-> c,
                    frame_final_start |-> 1, frame_final_end |-> 2]
GeigerSequencers ==
  UNION {[1..n -> {EarlierStrip(c) : c \in 1..(MaxBase + 1)}] : n \in 0..2}

InitGeiger ==
  /\ op = "NONE"
  /\ op_pc = "idle"
  /\ result = "NONE"
  /\ reports = NoReports
  /\ armature = "NONE"
  /\ sound_folder = "UNSET"
  /\ available_sound_files = <<>>
  /\ selection_mode = "RANDOM"
  /\ sound_filename = "NONE"
  /\ sound_path = NoPath
  /\ original_frame = 0
  /\ FreshRun
  /\ channel = 0
  /\ current_frame = 0
  /\ frame_offset = 0
  /\ sound_frames \in 1..MaxDurSteps
  /\ IdleColor
  /\ sed_strips \in GeigerSequencers
  /\ timeline_tracks = <<>>
  /\ pose_bones = <<>>
  /\ threshold = 0
  /\ direction = "BOTH"
  /\ frame_start = 0
  /\ frame_end = 0
  /\ frame = 0
  /\ prev_z = <<>>
  /\ crossing_data = <<>>
  /\ frame_current \in 0..MaxFrame
  /\ height_range = {}
  /\ pos = <<>>
  /\ det_pc = "idle"
  /\ IdleScheduler

NextGeiger ==
  \/ InsertGeigerBegin
  \/ InsertGeigerStrip

SpecGeiger == InitGeiger /\ [][NextGeiger]_vars

\* ------------------------------------------------------ the scheduler's runs

\* Every finite list of (frame, duration) pairs within the bounds, durations >= 1.
ClipLists == UNION {[1..n -> Starts \X Durations] : n \in 0..MaxStrips}

InitSched ==
  /\ caller \in {"VSE", "RESOLVE"}
  /\ clip_data \in ClipLists
  /\ base_channel \in BaseChannels
  /\ strips = IF caller = "VSE"
              THEN [i \in 1..Len(clip_data) |->
                      Strip(clip_data[i][1], clip_data[i][1] + clip_data[i][2], base_channel)]
              ELSE <<>>
  /\ assign_count = [i \in 1..Len(clip_data) |-> 0]
  /\ sorted_strips = <<>>
  /\ channel_strips = <<>>
  /\ strip_idx = 0
  /\ test_channel = 0
  /\ sep_pc = IF caller = "VSE" THEN "call" ELSE "mock"
  /\ track_assignments = <<>>
  /\ IdleDetector
  /\ IdleOp

NextSched ==
  \/ ComputeResolveBegin /\ UNCHANGED <<detVars, opVars>>
  \/ SeparateBegin /\ UNCHANGED <<detVars, opVars>>
  \/ SeparateTry /\ UNCHANGED <<detVars, opVars>>
  \/ SeparateReturn /\ UNCHANGED <<detVars, opVars>>

SpecSched == InitSched /\ [][NextSched]_vars

\* The scheduler on the lists of items over fewer starts, in every order (each
\* list is there with all its rearrangements).
OrderStarts == {s * FrameStep : s \in 0..MaxOrderSteps}
OrderLists == UNION {[1..n -> OrderStarts \X Durations] : n \in 0..MaxStrips}

InitOrder ==
  /\ caller \in {"VSE", "RESOLVE"}
  /\ clip_data \in OrderLists
  /\ base_channel \in BaseChannels
  /\ strips = IF caller = "VSE"
              THEN [i \in 1..Len(clip_data) |->
                      Strip(clip_data[i][1], clip_data[i][1] + clip_data[i][2], base_channel)]
              ELSE <<>>
  /\ assign_count = [i \in 1..Len(clip_data) |-> 0]
  /\ sorted_strips = <<>>
  /\ channel_strips = <<>>
  /\ strip_idx = 0
  /\ test_channel = 0
  /\ sep_pc = IF caller = "VSE" THEN "call" ELSE "mock"
  /\ track_assignments = <<>>
  /\ IdleDetector
  /\ IdleOp

SpecOrder == InitOrder /\ [][NextSched]_vars

\* The same runs with the scheduler's code going on as long as it has a step to
\* take: a call that has started executes its next statement.
FairOrder == SpecOrder /\ WF_vars(NextSched)

\* ------------------------------------------------------- the operators' runs

\* No operator has run: the cursor before the scene's range, a sequencer and a Resolve timeline
\* that are empty or hold earlier material.
OldStrip == [frame_final_start |-> 1, frame_final_end |-> 2, channel |-> 1,
             bone_name |-> 0, volume |-> Rat(1, 1), filepath |-> "a.wav"]
OldItem == [recordFrame |-> 0, duration |-> 1, sound |-> "a.wav"]

\* Earlier material that leaves gaps: the highest strip is not the last one and
\* no strip is on channel 2; the only clip is on the second of three tracks.
GappedStrips == <<[OldStrip EXCEPT !.channel = MaxBase + 1], OldStrip>>
GappedTracks == << <<>>, <<OldItem>>, <<>> >>

Worlds == {<< <<>>, <<>> >>, << <<>>, << <<>> >> >>, << <<OldStrip>>, << <<OldItem>> >> >>,
           <<GappedStrips, GappedTracks>>}

InitOp ==
  /\ op = "NONE"
  /\ op_pc = "idle"
  /\ result = "NONE"
  /\ reports = NoReports
  /\ armature = "NONE"
  /\ sound_folder = "UNSET"
  /\ available_sound_files = <<>>
  /\ selection_mode = "RANDOM"
  /\ sound_filename = "NONE"
  /\ sound_path = NoPath
  /\ original_frame = 0
  /\ FreshRun
  /\ \E w \in Worlds : sed_strips = w[1] /\ timeline_tracks = w[2]
  /\ pose_bones = <<>>
  /\ threshold = 0
  /\ direction = "BOTH"
  /\ frame_start = 0
  /\ frame_end = 0
  /\ frame = 0
  /\ prev_z = <<>>
  /\ crossing_data = <<>>
  /\ frame_current = 0
  /\ height_range = {}
  /\ pos = <<>>
  /\ det_pc = "idle"
  /\ IdleScheduler
  /\ IdleGeiger
  /\ IdleColor

NextOp ==
  \/ OpStartVSE
  \/ OpStartResolve
  \/ DetectBegin /\ UNCHANGED <<schedVars, opVars>>
  \/ ScanFrame /\ UNCHANGED <<schedVars, opVars>>
  \/ ScanRaises
  \/ OpAfterScanVSE
  \/ OpPlaceVSE
  \/ OpSeparateVSE
  \/ OpFinishVSE
  \/ OpAfterScanResolve
  \/ OpBuildPlacement
  \/ OpAssignTracks
  \/ OpEnsureTracks
  \/ OpAppend
  \/ ComputeResolveBegin /\ UNCHANGED <<detVars, opVars>>
  \/ SeparateBegin /\ UNCHANGED <<detVars, opVars>>
  \/ SeparateTry /\ UNCHANGED <<detVars, opVars>>
  \/ SeparateReturn /\ UNCHANGED <<detVars, opVars>>

SpecOp == InitOp /\ [][NextOp]_vars

\* The volume computation of the placement loops on its own: crossing_data as a
\* scan returned it (one bone, events at frames 1 .. n), the speed range the
\* operators derive from it, the three volume settings anywhere on their sliders.
CrossingTables ==
  UNION {[1..n -> (1..MaxSpeed) \X {BoneNames[1]}] : n \in 1..MaxEvents}

InitVolume ==
  /\ IdleScheduler
  /\ IdleGeiger
  /\ IdleColor
  /\ pose_bones = <<BoneNames[1]>>
  /\ threshold = 0
  /\ direction = "BOTH"
  /\ frame_start = 0
  /\ frame_end = MaxEvents
  /\ frame = MaxEvents
  /\ prev_z = <<>>
  /\ crossing_data \in CrossingTables
  /\ frame_current = 0
  /\ height_range = {}
  /\ pos = <<>>
  /\ det_pc = "returned"
  /\ op \in {"VSE", "RESOLVE"}
  /\ op_pc = "volume"
  /\ result = "NONE"
  /\ reports = NoReports
  /\ armature = "ARMATURE"
  /\ sound_folder = "UNSET"
  /\ available_sound_files = <<>>
  /\ selection_mode = "SINGLE"
  /\ sound_filename = "NONE"
  /\ sound_path = NoPath
  /\ original_frame = 0
  /\ crossing_frames = SortedKeys(crossing_data)
  /\ max_speed = MaxOf(Speeds(crossing_data))
  /\ min_speed = MinOf(Speeds(crossing_data))
  /\ speed_range = SpeedRange(max_speed, min_speed)
  /\ volume_slowest \in Volumes
  /\ volume_fastest \in Volumes
  /\ volume_randomness \in Randomness
  /\ event_idx = 1
  /\ last_event = <<>>
  /\ new_strips = <<>>
  /\ inserted_count = 0
  /\ usable_sound_paths = <<>>
  /\ sound_durations = <<>>
  /\ media_pool_clips = <<>>
  /\ resolved_sound_clips = <<>>
  /\ placements = <<>>
  /\ placed_count = 0
  /\ blender_fps = 0
  /\ resolve_fps = 0
  /\ resolve_start = 0
  /\ sed_strips = <<>>
  /\ timeline_tracks = <<>>

\* The volume of one event, as both placement loops compute it.
VolumeOfEvent ==
  /\ op_pc = "volume"
  /\ event_idx <= Len(crossing_frames)
  /\ LET f == crossing_frames[event_idx]
         base_volume == BaseVolume(crossing_data[f][1], min_speed, speed_range,
                                   volume_slowest, volume_fastest)
     IN \E u \in UniformDraws(volume_randomness) :
          last_event' = Event(f, sound_path, base_volume,
                              GetRandomVolume(base_volume, volume_randomness, u), FALSE)
  /\ event_idx' = event_idx + 1
  /\ UNCHANGED <<op_pc, result, reports, crossing_frames, min_speed, max_speed, speed_range,
                 volume_slowest, volume_fastest, volume_randomness, new_strips, inserted_count,
                 usable_sound_paths, sound_durations, media_pool_clips, resolved_sound_clips,
                 placements, placed_count, blender_fps, resolve_fps, resolve_start>>
  /\ UNCHANGED <<hdrVars, worldVars, detVars, schedVars>>
  /\ UNCHANGED <<geigerVars, colorVars>>

NextVolume == VolumeOfEvent

SpecVolume == InitVolume /\ [][NextVolume]_vars

\* The frame conversion of the Resolve operator on its own: a run at the start of
\* the loop that builds the placement list, with two events on consecutive
\* frames up to MaxOffset frames into the scene range, one sound, and the frame
\* rates that projects commonly use on either side.
ConvertRates == {24, 25, 30}

InitConvert ==
  /\ IdleScheduler
  /\ IdleGeiger
  /\ IdleColor
  /\ pose_bones = <<BoneNames[1]>>
  /\ threshold = 0
  /\ direction = "BOTH"
  /\ frame_start = 1
  /\ frame_end = MaxOffset + 2
  /\ frame = MaxOffset + 3
  /\ prev_z = <<>>
  /\ \E k \in 0..MaxOffset :
       crossing_data = [g \in {frame_start + k, frame_start + k + 1} |-> <<1, BoneNames[1]>>]
  /\ frame_current = 0
  /\ height_range = OpHeights
  /\ pos = <<>>
  /\ det_pc = "returned"
  /\ op = "RESOLVE"
  /\ op_pc = "place"
  /\ result = "NONE"
  /\ reports = Report(NoReports, "INFO")
  /\ armature = "ARMATURE"
  /\ sound_folder = "DIR"
  /\ available_sound_files = <<"a.wav">>
  /\ selection_mode = "SINGLE"
  /\ sound_filename = "a.wav"
  /\ sound_path = "a.wav"
  /\ original_frame = 0
  /\ crossing_frames = SortedKeys(crossing_data)
  /\ max_speed = 1
  /\ min_speed = 1
  /\ speed_range = SpeedRange(1, 1)
  /\ volume_slowest = VolScale
  /\ volume_fastest = VolScale
  /\ volume_randomness = 0
  /\ event_idx = 1
  /\ last_event = <<>>
  /\ new_strips = <<>>
  /\ inserted_count = 0
  /\ usable_sound_paths = <<"a.wav">>
  /\ sound_durations = SoundDurations(usable_sound_paths, TRUE)
  /\ media_pool_clips = ImportedClips(usable_sound_paths)
  /\ resolved_sound_clips = ResolvedSoundClips(usable_sound_paths, media_pool_clips)
  /\ placements = <<>>
  /\ placed_count = 0
  /\ blender_fps \in ConvertRates
  /\ resolve_fps \in ConvertRates
  /\ resolve_start \in ResolveStarts
  /\ sed_strips = <<>>
  /\ timeline_tracks = << <<>> >>

NextConvert == OpBuildPlacement

\* The duration conversion of the Resolve operator on its own: the same loop,
\* two events at the start of the scene range, one sound of either kind whose
\* decoding gives any of the outcomes of WaveReads and BackendLengths.
WaveRates == {0, 25, 30}
WaveReads == {None} \cup ((0..MaxWaveFrames) \X WaveRates)
BackendLengths == {None, <<0, 1>>, <<3, 2>>}

InitDuration ==
  /\ IdleScheduler
  /\ IdleGeiger
  /\ IdleColor
  /\ pose_bones = <<BoneNames[1]>>
  /\ threshold = 0
  /\ direction = "BOTH"
  /\ frame_start = 1
  /\ frame_end = 3
  /\ frame = 4
  /\ prev_z = <<>>
  /\ crossing_data = [g \in {2, 3} |-> <<1, BoneNames[1]>>]
  /\ frame_current = 0
  /\ height_range = OpHeights
  /\ pos = <<>>
  /\ det_pc = "returned"
  /\ op = "RESOLVE"
  /\ op_pc = "place"
  /\ result = "NONE"
  /\ reports = Report(NoReports, "INFO")
  /\ armature = "ARMATURE"
  /\ sound_folder = "DIR"
  /\ selection_mode = "SINGLE"
  /\ sound_filename \in {"a.wav", "b.mp3"}
  /\ available_sound_files = <<sound_filename>>
  /\ sound_path = sound_filename
  /\ original_frame = 0
  /\ crossing_frames = SortedKeys(crossing_data)
  /\ max_speed = 1
  /\ min_speed = 1
  /\ speed_range = SpeedRange(1, 1)
  /\ volume_slowest = VolScale
  /\ volume_fastest = VolScale
  /\ volume_randomness = 0
  /\ event_idx = 1
  /\ last_event = <<>>
  /\ new_strips = <<>>
  /\ inserted_count = 0
  /\ usable_sound_paths = <<sound_path>>
  /\ \E wave \in WaveReads, length \in BackendLengths :
       sound_durations = [fp \in {sound_path} |->
                            GetAudioDurationSeconds(SplitExt(fp), wave, length)]
  /\ media_pool_clips = ImportedClips(usable_sound_paths)
  /\ resolved_sound_clips = ResolvedSoundClips(usable_sound_paths, media_pool_clips)
  /\ placements = <<>>
  /\ placed_count = 0
  /\ blender_fps \in SceneRates
  /\ resolve_fps \in ConvertRates
  /\ resolve_start \in ResolveStarts
  /\ sed_strips = <<>>
  /\ timeline_tracks = << <<>> >>

SpecDuration == InitDuration /\ [][NextConvert]_vars

\* The clip lookup of the Resolve operator on its own: a SINGLE run that has
\* connected, with any clips registered: clips named like the sound, like a
\* file of the same stem, with a name that contains the sound's name or is
\* contained in it, or unnamed; from the sound's file, from another file, or
\* without a file path.
ClipNames == {"", "a.wav", "a.mp3", "xa.wav", "wav", "b.mp3"}
ClipPaths == {"", "a.wav", "x/a.wav"}
Clips == [name : ClipNames, path : ClipPaths]
RegisteredClips == UNION {[1..n -> Clips] : n \in 0..MaxClips}

InitLookup ==
  /\ IdleScheduler
  /\ IdleGeiger
  /\ IdleColor
  /\ pose_bones = <<BoneNames[1]>>
  /\ threshold = 0
  /\ direction = "BOTH"
  /\ frame_start = 1
  /\ frame_end = 2
  /\ frame = 3
  /\ prev_z = <<>>
  /\ crossing_data = [g \in {2} |-> <<1, BoneNames[1]>>]
  /\ frame_current = 0
  /\ height_range = OpHeights
  /\ pos = <<>>
  /\ det_pc = "returned"
  /\ op = "RESOLVE"
  /\ op_pc = "lookup"
  /\ result = "NONE"
  /\ reports = Report(NoReports, "INFO")
  /\ armature = "ARMATURE"
  /\ sound_folder = "DIR"
  /\ selection_mode = "SINGLE"
  /\ sound_filename \in {"a.wav", "b.mp3"}
  /\ available_sound_files = <<sound_filename>>
  /\ sound_path = sound_filename
  /\ original_frame = 0
  /\ crossing_frames = SortedKeys(crossing_data)
  /\ max_speed = 1
  /\ min_speed = 1
  /\ speed_range = SpeedRange(1, 1)
  /\ volume_slowest = 0
  /\ volume_fastest = 0
  /\ volume_randomness = 0
  /\ event_idx = 0
  /\ last_event = <<>>
  /\ new_strips = <<>>
  /\ inserted_count = 0
  /\ usable_sound_paths = <<>>
  /\ sound_durations = <<>>
  /\ media_pool_clips \in RegisteredClips
  /\ resolved_sound_clips = <<>>
  /\ placements = <<>>
  /\ placed_count = 0
  /\ blender_fps \in SceneRates
  /\ resolve_fps = 24
  /\ resolve_start = 0
  /\ sed_strips = <<>>
  /\ timeline_tracks = << <<>> >>

\* resolved_sound_clips and usable_sound_paths from the registered clips.
ResolveClips ==
  /\ op = "RESOLVE" /\ op_pc = "lookup"
  /\ LET resolved == ResolvedSoundClips(AllSoundPaths, media_pool_clips)
         Keep(p) == resolved[p] # NoClip
     IN /\ resolved_sound_clips' = resolved
        /\ usable_sound_paths' = SelectSeq(AllSoundPaths, Keep)
  /\ op_pc' = "looked_up"
  /\ UNCHANGED <<result, reports, crossing_frames, min_speed, max_speed, speed_range,
                 volume_slowest, volume_fastest, volume_randomness, event_idx, last_event,
                 new_strips, inserted_count, sound_durations, media_pool_clips, placements,
                 placed_count, blender_fps, resolve_fps, resolve_start>>
  /\ UNCHANGED <<hdrVars, worldVars, detVars, schedVars>>
  /\ UNCHANGED <<geigerVars, colorVars>>

NextLookup == ResolveClips

SpecLookup == InitLookup /\ [][NextLookup]_vars

SpecConvert == InitConvert /\ [][NextConvert]_vars


\* ------------------------------------------------------- detector: claims

\* The height of bone b sampled at frame f (f already scanned).
HeightAt(f, b) == pos[f - frame_start + 1][b]

\* The frames scanned so far that have a frame before them in the scan.
ComparedFrames == (frame_start + 1)..(frame_start + Len(pos) - 1)

BoneSet == {pose_bones[k] : k \in 1..Len(pose_bones)}

\* The claim's crossing predicate for bone b between frames f-1 and f.
CrossesAt(f, b) ==
  LET prev == HeightAt(f - 1, b)
      cur == HeightAt(f, b)
      up == prev < threshold /\ cur >= threshold
      down == prev > threshold /\ cur <= threshold
  IN CASE direction = "UP" -> up
       [] direction = "DOWN" -> down
       [] direction = "BOTH" -> up \/ down

SpeedAt(f, b) == Abs(HeightAt(f, b) - HeightAt(f - 1, b))

ScenarioRun ==
  /\ det_pc = "returned" /\ direction = "BOTH" /\ threshold = 0
  /\ pose_bones = <<1>> /\ frame_start = 0 /\ frame_end = 5
  /\ pos = [k \in 1..6 |-> [b \in {1} |-> ScenarioHeights[k]]]

\* C6: a frame f with frame_start < f <= frame_end is a key of crossing_data
\* exactly when some monitored bone satisfies the direction's crossing predicate
\* between f-1 and f, the recorded speed is |cur - prev| of a bone crossing there,
\* and the scenario yields frame 2 (speed 1.0) and frame 4 (speed 2.0) only.
C6_KeysAreCrossings ==
  /\ det_pc \in {"scan", "returned"} =>
       \A f \in ComparedFrames :
         IF \E b \in BoneSet : CrossesAt(f, b)
         THEN /\ f \in DOMAIN crossing_data
              /\ \E b \in BoneSet : /\ CrossesAt(f, b)
                                    /\ crossing_data[f] = <<SpeedAt(f, b), b>>
         ELSE f \notin DOMAIN crossing_data
  /\ det_pc = "returned" => Len(pos) = IF frame_end < frame_start THEN 0
                                       ELSE frame_end - frame_start + 1
  /\ ScenarioRun => /\ DOMAIN crossing_data = {2, 4}
                    /\ crossing_data[2] = <<2, 1>>
                    /\ crossing_data[4] = <<4, 1>>

\* The scenario's scan has returned frames 2 and 4.
C6_Witness == ScenarioRun /\ DOMAIN crossing_data = {2, 4}

\* The positions in pose_bones of the bones crossing at frame f.
CrossingPositions(f) == {k \in 1..Len(pose_bones) : CrossesAt(f, pose_bones[k])}

\* C7: crossing_data holds one (speed, bone) pair per frame; its speed is the
\* largest among the bones crossing in that frame and its bone is the first in
\* pose_bones order among those with that speed.
C7_FastestFirstSeen ==
  det_pc \in {"scan", "returned"} =>
    \A f \in DOMAIN crossing_data :
      LET ks == CrossingPositions(f)
          best == {k \in ks : \A j \in ks : SpeedAt(f, pose_bones[j]) <= SpeedAt(f, pose_bones[k])}
      IN /\ best # {}
         /\ \E k \in best :
              /\ \A j \in best : k <= j
              /\ crossing_data[f] = <<SpeedAt(f, pose_bones[k]), pose_bones[k]>>

\* Both bones cross in one frame at the same speed, and in another frame the
\* second bone crosses faster than the first.
C7_Witness ==
  /\ det_pc = "returned" /\ Len(pose_bones) = 2
  /\ \E f \in DOMAIN crossing_data :
       /\ CrossingPositions(f) = {1, 2}
       /\ SpeedAt(f, pose_bones[1]) = SpeedAt(f, pose_bones[2])
  /\ \E f \in DOMAIN crossing_data :
       /\ CrossingPositions(f) = {1, 2}
       /\ SpeedAt(f, pose_bones[1]) < SpeedAt(f, pose_bones[2])

\* C8: every key f of crossing_data satisfies frame_start < f <= frame_end.
C8_NoEventAtFirstFrame ==
  \A f \in DOMAIN crossing_data : frame_start < f /\ f <= frame_end

\* A scan whose first frame has a bone at or above a positive threshold (a
\* start from height 0 would count as a crossing) and that records crossings
\* at its second and its last frame.
C8_Witness ==
  /\ det_pc = "returned" /\ threshold > 0 /\ frame_start = 1
  /\ frame_end > frame_start + 1
  /\ \E b \in BoneSet : HeightAt(frame_start, b) >= threshold
  /\ {frame_start + 1, frame_end} \subseteq DOMAIN crossing_data

\* ------------------------------------------------------ scheduler: claims

SchedFinished == sep_pc \in {"returned", "done"}

\* All frames a strip of the bounded inputs can cover.
SchedFrames == 0..((MaxStartSteps + MaxDurSteps) * FrameStep)

\* Two strips share a frame of their half-open intervals [start, end).
SharesFrame(a, b) ==
  \E f \in a.frame_final_start..(a.frame_final_end - 1) :
    b.frame_final_start <= f /\ f < b.frame_final_end

\* The channels in use after a run.
UsedChannels == {strips[i].channel : i \in 1..Len(strips)}

\* How many strips cover frame f.
DepthAt(f) ==
  Cardinality({i \in 1..Len(strips) :
                 strips[i].frame_final_start <= f /\ f < strips[i].frame_final_end})

\* The largest number of strips sharing one frame.
MaxDepth ==
  LET depths == {DepthAt(f) : f \in SchedFrames} \cup {0}
  IN CHOOSE d \in depths : \A e \in depths : e <= d

\* C1: after separate_overlapping_strips returns, no two distinct strips on the
\* same channel satisfy startA < endB and startB < endA.
C1_NoOverlapOnChannel ==
  SchedFinished =>
    \A i, j \in 1..Len(strips) :
      (i # j /\ strips[i].channel = strips[j].channel) =>
        ~(/\ strips[i].frame_final_start < strips[j].frame_final_end
          /\ strips[j].frame_final_start < strips[i].frame_final_end)

\* A finished run that had overlapping strips to separate and strips to share a channel.
C1_Witness ==
  /\ sep_pc = "done"
  /\ \E i, j \in 1..Len(strips) : i # j /\ SharesFrame(strips[i], strips[j])
  /\ \E i, j \in 1..Len(strips) : i # j /\ strips[i].channel = strips[j].channel

\* The strips already placed, as positions of sorted_strips.
PlacedPositions ==
  IF sep_pc = "loop" THEN 1..(strip_idx - 1)
  ELSE IF SchedFinished THEN 1..Len(sorted_strips)
  ELSE {}

\* C2: the strips are taken in ascending start order, and each is put on the
\* lowest channel t >= base_channel on which it shares no frame with a strip placed
\* before it (touching strips share none); items (0,10),(5,10),(20,5) with base 1
\* get tracks 1, 2, 1.
C2_LowestFreeTrack ==
  /\ sep_pc \in {"loop", "returned", "done"} /\ strips # <<>> =>
       /\ Len(sorted_strips) = Len(strips)
       /\ {sorted_strips[p] : p \in 1..Len(sorted_strips)} = 1..Len(strips)
       /\ \A p, q \in 1..Len(sorted_strips) :
            p < q => strips[sorted_strips[p]].frame_final_start
                       <= strips[sorted_strips[q]].frame_final_start
  /\ \A p \in PlacedPositions :
       LET i == sorted_strips[p]
           c == strips[i].channel
           Earlier(t) == {q \in 1..(p - 1) : strips[sorted_strips[q]].channel = t}
       IN /\ c >= base_channel
          /\ \A q \in Earlier(c) : ~SharesFrame(strips[i], strips[sorted_strips[q]])
          /\ \A t \in base_channel..(c - 1) :
               \E q \in Earlier(t) : SharesFrame(strips[i], strips[sorted_strips[q]])
  /\ (sep_pc = "done" /\ caller = "RESOLVE" /\ base_channel = 1
        /\ clip_data = << <<0, 10>>, <<5, 10>>, <<20, 5>> >>)
       => track_assignments = <<1, 2, 1>>

\* The scenario's run, finished: the third item went back to track 1.
C2_Witness ==
  /\ sep_pc = "done" /\ caller = "RESOLVE" /\ base_channel = 1
  /\ clip_data = << <<0, 10>>, <<5, 10>>, <<20, 5>> >>
  /\ track_assignments = <<1, 2, 1>>

\* C3: the number of distinct channels used equals the largest number of strips
\* sharing one frame, and no assignment to fewer channels keeps overlapping
\* strips apart.
C3_MinimalTrackCount ==
  SchedFinished =>
    /\ Cardinality(UsedChannels) = MaxDepth
    /\ \A k \in 0..(Cardinality(UsedChannels) - 1) :
         \A asg \in [1..Len(strips) -> 1..k] :
           \E i, j \in 1..Len(strips) :
             i # j /\ asg[i] = asg[j] /\ SharesFrame(strips[i], strips[j])

\* Three strips in a chain (the middle one overlaps both others, which are
\* apart): two channels, not three.
C3_Witness ==
  /\ sep_pc = "done" /\ Len(strips) = 3
  /\ \E i, j, k \in 1..3 :
       /\ SharesFrame(strips[i], strips[j]) /\ SharesFrame(strips[j], strips[k])
       /\ ~SharesFrame(strips[i], strips[k]) /\ i # k
  /\ Cardinality(UsedChannels) = 2

\* C10: every strip handed to the scheduler has its channel assigned exactly once
\* (never twice while it runs), the channel is >= base_channel, and no mock
\* strip of the Resolve path keeps its initial channel 0.
C10_AssignedOnceAtOrAboveBase ==
  /\ \A i \in 1..Len(assign_count) : assign_count[i] <= 1
  /\ SchedFinished =>
       \A i \in 1..Len(strips) :
         assign_count[i] = 1 /\ strips[i].channel >= base_channel
  /\ (sep_pc = "done" /\ caller = "RESOLVE") =>
       /\ Len(track_assignments) = Len(clip_data)
       /\ \A i \in 1..Len(track_assignments) :
            track_assignments[i] # 0 /\ track_assignments[i] >= base_channel

\* A Resolve run with base track 2 whose mock strips all started on channel 0.
C10_Witness ==
  /\ sep_pc = "done" /\ caller = "RESOLVE" /\ base_channel = MaxBase /\ MaxBase > 1
  /\ Len(track_assignments) = MaxStrips
  /\ \E i \in 1..Len(track_assignments) : track_assignments[i] > base_channel

\* separate_overlapping_strips as a function: the channels it leaves on the strips
\* ss (in the order of ss), for the base channel base.  asg[j] = 0: not placed yet.
RECURSIVE FirstFitFrom(_, _, _, _, _)
FirstFitFrom(ss, order, base, k, asg) ==
  IF k > Len(ss)
  THEN asg
  ELSE LET i == order[k]
           Free(c) == \A j \in 1..Len(ss) : asg[j] = c => ~StripsOverlap(ss[i], ss[j])
           ch == CHOOSE c \in base..(base + Len(ss)) :
                   Free(c) /\ \A d \in base..(c - 1) : ~Free(d)
       IN FirstFitFrom(ss, order, base, k + 1, [asg EXCEPT ![i] = ch])

FirstFitChannels(ss, base) ==
  FirstFitFrom(ss, SortedByStart(ss), base, 1, [i \in 1..Len(ss) |-> 0])

\* The strips of the pairs cd: start = frame, end = frame + duration.
StripsOf(cd, ch) == [i \in 1..Len(cd) |-> Strip(cd[i][1], cd[i][1] + cd[i][2], ch)]

\* C11: compute_resolve_track_assignments_with_vse_logic returns one track per
\* input pair, in input order, and the i-th track is the channel that
\* separate_overlapping_strips gives the strip [frame_i, frame_i + duration_i):
\* the sequencer's strips of the same pairs end on the same channels.
C11_TracksInInputOrder ==
  sep_pc = "done"
    => LET channels == FirstFitChannels(StripsOf(clip_data, base_channel), base_channel)
       IN /\ Len(strips) = Len(clip_data)
          /\ \A i \in 1..Len(clip_data) : strips[i].channel = channels[i]
          /\ caller = "RESOLVE"
               => /\ Len(track_assignments) = Len(clip_data)
                  /\ \A i \in 1..Len(clip_data) : track_assignments[i] = channels[i]

\* A Resolve run whose first pair starts after its second and lands above it.
C11_Witness ==
  /\ sep_pc = "done"
  /\ caller = "RESOLVE"
  /\ Len(clip_data) >= 2
  /\ clip_data[1][1] > clip_data[2][1]
  /\ track_assignments[1] > track_assignments[2]

\* The permutations of 1..n, and the list cd taken in the order p.
ListOrders(n) == {p \in [1..n -> 1..n] : \A i, j \in 1..n : i # j => p[i] # p[j]}
Orders == [n \in 0..(MaxStrips + 1) |-> ListOrders(n)]
Permuted(cd, p) == [i \in 1..Len(cd) |-> cd[p[i]]]

\* The set of channels the scheduler uses for the pairs cd.
TrackSet(cd, base) ==
  LET channels == FirstFitChannels(StripsOf(cd, base), base)
  IN {channels[i] : i \in 1..Len(cd)}

\* C12: the set of tracks the scheduler uses is the same for every permutation of
\* the same items and the same base track.
C12_TrackSetPermutationInvariant ==
  sep_pc = "done"
    => \A p \in Orders[Len(clip_data)] :
         TrackSet(Permuted(clip_data, p), base_channel) = UsedChannels

\* Three items, not in start order, two of them with the same start, on two tracks.
C12_Witness ==
  /\ sep_pc = "done"
  /\ Len(clip_data) = 3
  /\ clip_data[1][1] > clip_data[2][1]
  /\ clip_data[2][1] = clip_data[3][1]
  /\ clip_data[2][2] # clip_data[3][2]
  /\ Cardinality(UsedChannels) = 2

\* ------------------------------------------------------ the operators: claims

\* What the run placed on its timeline.
NothingPlaced == new_strips = <<>> /\ placed_count = 0 /\ inserted_count = 0

\* The volumes the run gave its events: the new strips' volumes (VSE) and the
\* placement list's volumes (Resolve).
EventVolumes ==
  {sed_strips[new_strips[i]].volume : i \in 1..Len(new_strips)}
    \cup {placements[i][5] : i \in 1..Len(placements)}

\* C4: when every crossing event of a run has the same speed (a single event
\* included), normalizedSpeed is 1.0: with randomness 0 every event's volume is
\* volume_fastest, in both operators.
C4_FlatSpeedsPlayFastest ==
  (max_speed = min_speed /\ volume_randomness = 0)
    => \A v \in EventVolumes : RatEq(v, Vol(volume_fastest))

\* C5: once a scan has started, the run ends with the frame cursor at the value
\* it had before the scan, on every exit path, the one where the scan ends with
\* an error included.
C5_CursorRestoredOnEveryExit ==
  (op_pc = "done" /\ det_pc \in {"scan", "returned", "raised"})
    => frame_current = original_frame

\* The candidate set is empty in RANDOM mode, or no file is configured in SINGLE mode.
NoAssetsAvailable ==
  \/ selection_mode = "RANDOM" /\ available_sound_files = <<>>
  \/ selection_mode = "SINGLE" /\ sound_filename = "NONE"

\* C9: a run with events to place fails as a whole (an ERROR report, CANCELLED,
\* nothing placed) when the mode is RANDOM and the candidate set is empty (no
\* folder, not a directory, no supported audio file), and when the mode is SINGLE
\* and no sound is configured, in both operators.
C9_NoAssetsFailsRun ==
  (op_pc = "done" /\ result # "EXCEPTION" /\ crossing_data # <<>> /\ NoAssetsAvailable)
    => /\ result = "CANCELLED"
       /\ reports["ERROR"] >= 1
       /\ NothingPlaced

\* ------------------------------------------------------- volumes: claims

\* The event the loop handled last, once there is one.
HasEvent == last_event # <<>>

\* C13: when the fastest crossing of a run is faster than the slowest and
\* randomness is 0, each event's volume is
\* volume_slowest + ((speed - min) / (max - min)) * (volume_fastest - volume_slowest):
\* the slowest event plays at exactly volume_slowest and the fastest at exactly
\* volume_fastest, whichever of the two settings is larger.  (Volumes are
\* fractions <<n, d>>; the settings count units of 1 / VolScale.)
C13_VolumeFollowsSpeed ==
  (HasEvent /\ max_speed > min_speed /\ volume_randomness = 0)
    => LET speed == last_event.crossing_speed
           n == last_event.final_volume[1]
           d == last_event.final_volume[2]
           span == max_speed - min_speed
       IN /\ d # 0
          /\ n * VolScale * span
               = d * (volume_slowest * span
                        + (speed - min_speed) * (volume_fastest - volume_slowest))
          /\ speed = min_speed => n * VolScale = d * volume_slowest
          /\ speed = max_speed => n * VolScale = d * volume_fastest

\* An event strictly between the slowest and the fastest, with the slow end of
\* the range the louder one: its volume lies strictly between the two settings.
C13_Witness ==
  /\ HasEvent /\ volume_randomness = 0
  /\ volume_slowest > volume_fastest
  /\ min_speed < last_event.crossing_speed /\ last_event.crossing_speed < max_speed
  /\ ~RatLeq(last_event.final_volume, Vol(volume_fastest))
  /\ ~RatLeq(Vol(volume_slowest), last_event.final_volume)

\* C14: with volume_slowest, volume_fastest and volume_randomness in [0, 1]
\* every final volume lies in [0, 1], and more precisely in
\* [base_volume * (1 - randomness), base_volume]; it is base_volume exactly when
\* randomness is 0.
C14_FinalVolumeInRange ==
  HasEvent
    => LET base == last_event.base_volume
           final == last_event.final_volume
           low == RatMul(base, Rat(VolScale - volume_randomness, VolScale))
       IN /\ RatLeq(Rat(0, 1), final) /\ RatLeq(final, Rat(1, 1))
          /\ RatLeq(low, final) /\ RatLeq(final, base)
          /\ volume_randomness = 0 => RatEq(final, base)

\* A draw strictly inside the interval, with randomness strictly between 0 and 1.
C14_Witness ==
  /\ HasEvent
  /\ 0 < volume_randomness /\ volume_randomness < VolScale
  /\ ~RatLeq(last_event.base_volume, last_event.final_volume)
  /\ ~RatLeq(last_event.final_volume,
             RatMul(last_event.base_volume, Rat(VolScale - volume_randomness, VolScale)))

\* ------------------------------------------------- sound selection: claims

\* The sound files of the run's events so far: of the strips added, of the
\* placements built, and of the event the loop handled last.
EventSounds ==
  {sed_strips[new_strips[i]].filepath : i \in 1..Len(new_strips)}
    \cup {placements[i][3] : i \in 1..Len(placements)}
    \cup (IF HasEvent THEN {last_event.sound} ELSE {})

\* The files RANDOM mode draws from: the folder's supported audio files in the
\* VSE operator, the usable resolved paths in the Resolve operator.
Candidates ==
  IF op = "VSE" THEN Range(available_sound_files) ELSE Range(usable_sound_paths)

\* C15: in SINGLE mode every event of a run gets the same sound file; in RANDOM
\* mode every event's sound file is a member of the candidate set, so a
\* one-element candidate set gives that element to every event.
C15_SoundSelection ==
  /\ selection_mode = "SINGLE" => EventSounds \subseteq {sound_path}
  /\ (selection_mode = "RANDOM" /\ Candidates # {})
       => /\ EventSounds \subseteq Candidates
          /\ \A only \in Candidates : Candidates = {only} => EventSounds \subseteq {only}

\* A RANDOM run over two candidates whose two events got different files.
C15_Witness ==
  /\ selection_mode = "RANDOM"
  /\ Cardinality(Candidates) = 2
  /\ Cardinality(EventSounds) = 2
  /\ Len(new_strips) + Len(placements) = 2

\* A SINGLE run that handled two events.
C15_SingleWitness ==
  /\ selection_mode = "SINGLE"
  /\ Len(new_strips) + Len(placements) = 2
  /\ EventSounds = {sound_path}

\* ------------------------------------------------ frame conversion: claims

\* The placements built so far, with the crossing frame each one is for.
ConvertedFrames ==
  {<<crossing_frames[i], placements[i][1]>> : i \in 1..Len(placements)}

\* C16: the exporter converts frame F of [frame_start, frame_end] to
\* resolve_start + floor(((F - frame_start) / blender_fps) * resolve_fps); from
\* 24 to 30 frames per second the converted frames of F and F + 1 differ by
\* floor(30 / 24) = 1 or by that value plus or minus 1.
C16_FrameConversion ==
  /\ \A c \in ConvertedFrames :
       c[2] = resolve_start
                + Floor(RatMul(Rat(c[1] - frame_start, blender_fps), Rat(resolve_fps, 1)))
  /\ (blender_fps = 24 /\ resolve_fps = 30)
       => \A c, d \in ConvertedFrames :
            d[1] = c[1] + 1 => d[2] - c[2] \in {(30 \div 24) - 1, 30 \div 24, (30 \div 24) + 1}

\* The second part alone: consecutive frames, 24 to 30 frames per second.
C16_ConsecutiveFrames ==
  (blender_fps = 24 /\ resolve_fps = 30)
    => \A c, d \in ConvertedFrames :
         d[1] = c[1] + 1 => d[2] - c[2] \in {(30 \div 24) - 1, 30 \div 24, (30 \div 24) + 1}

\* Both steps the conversion takes between consecutive frames from 24 to 30.
C16_StepOne ==
  /\ blender_fps = 24 /\ resolve_fps = 30
  /\ \E c, d \in ConvertedFrames : d[1] = c[1] + 1 /\ d[2] - c[2] = 1
C16_StepTwo ==
  /\ blender_fps = 24 /\ resolve_fps = 30
  /\ \E c, d \in ConvertedFrames : d[1] = c[1] + 1 /\ d[2] - c[2] = 2

\* --------------------------------------------- duration conversion: claims

\* The duration in seconds of a sound whose decoding gives wave and length: the
\* sample count over the sample rate, else the backend's length, and 1 second
\* when neither can be determined.
DurationSeconds(ext, wave, length) ==
  IF ext = ".wav" /\ wave # None /\ wave[2] # 0 THEN Rat(wave[1], wave[2])
  ELSE IF length # None /\ length[1] > 0 THEN Rat(length[1], length[2])
  ELSE Rat(1, 1)

\* The decodings of the run's sound that give the cached duration.
Decodings ==
  {d \in WaveReads \X BackendLengths :
     sound_path \in DOMAIN sound_durations
       /\ sound_durations[sound_path]
            = GetAudioDurationSeconds(SplitExt(sound_path), d[1], d[2])}

\* max(1, floor(seconds * rate))
ClampedFrames(seconds, rate) ==
  LET n == Floor(RatMul(seconds, Rat(rate, 1))) IN IF n > 1 THEN n ELSE 1

\* C17: every Resolve placement's duration is
\* max(1, floor(durationSeconds * resolve_fps)) and therefore at least 1, where
\* durationSeconds is 1.0 when it cannot be determined.
C17_PlacementDuration ==
  \A i \in 1..Len(placements) :
    /\ placements[i][2] >= 1
    /\ \A d \in Decodings :
         placements[i][2]
           = ClampedFrames(DurationSeconds(SplitExt(sound_path), d[1], d[2]), resolve_fps)

\* The parts of C17 that hold: a duration is at least 1 frame, and a sound whose
\* duration cannot be determined counts as one second, resolve_fps frames.
C17_AtLeastOneFrame ==
  \A i \in 1..Len(placements) :
    /\ placements[i][2] >= 1
    /\ <<None, None>> \in Decodings => placements[i][2] = resolve_fps

\* A sound shorter than a frame is placed with one frame; an undecodable sound
\* is placed with one second.
C17_ClampedWitness ==
  /\ placements # <<>>
  /\ \E d \in Decodings : d[1] # None /\ d[1][1] = 0 /\ d[1][2] # 0 /\ sound_path = "a.wav"
  /\ placements[1][2] = 1
C17_FallbackWitness ==
  /\ placements # <<>>
  /\ <<None, None>> \in Decodings
  /\ placements[1][2] = resolve_fps

\* ------------------------------------------------------ clip lookup: claims

\* The registered clips that match the sound on each tier: by resolved path, by
\* file name, by file-name stem, by one name containing the other.
PathTier ==
  {i \in 1..Len(media_pool_clips) :
     media_pool_clips[i].path # "" /\ media_pool_clips[i].path = sound_path}
NameTier ==
  {i \in 1..Len(media_pool_clips) :
     media_pool_clips[i].name # ""
       /\ Chars(media_pool_clips[i].name) = Basename(Chars(sound_path))}
StemTier ==
  {i \in 1..Len(media_pool_clips) :
     media_pool_clips[i].name # ""
       /\ Stem(Chars(media_pool_clips[i].name)) = Stem(Basename(Chars(sound_path)))}
SubstringTier ==
  {i \in 1..Len(media_pool_clips) :
     media_pool_clips[i].name # ""
       /\ \/ Contains(Chars(media_pool_clips[i].name), Basename(Chars(sound_path)))
          \/ Contains(Basename(Chars(sound_path)), Chars(media_pool_clips[i].name))}
Tiers == <<PathTier, NameTier, StemTier, SubstringTier>>

\* The clip found for the run's sound, once the lookup has run.
LookedUp == op_pc = "looked_up" /\ sound_path \in DOMAIN resolved_sound_clips
FoundClip == resolved_sound_clips[sound_path]

\* C18: find_resolve_media_clip tries an exact match of the resolved path, then
\* of the file name, then of the file-name stem, then containment between the file
\* names; the first tier with a match wins, within a tier the clip registered
\* first wins, and the result is None only when no tier matches.
C18_FirstTierFirstRegistered ==
  LookedUp
    => IF \A k \in 1..4 : Tiers[k] = {}
       THEN FoundClip = NoClip
       ELSE LET k == CHOOSE n \in 1..4 : Tiers[n] # {} /\ \A m \in 1..(n - 1) : Tiers[m] = {}
            IN FoundClip = MinOf(Tiers[k])

\* A clip found by its path although a clip registered before it matches on a
\* later tier.
C18_Witness ==
  /\ LookedUp
  /\ FoundClip \in PathTier
  /\ \E j \in 1..(FoundClip - 1) : j \in NameTier \cup StemTier \cup SubstringTier

\* Two clips that match by containment only: the one registered first is found.
C18_SubstringWitness ==
  /\ LookedUp
  /\ PathTier = {} /\ NameTier = {} /\ StemTier = {}
  /\ Cardinality(SubstringTier) = 2
  /\ FoundClip = MinOf(SubstringTier)

\* Clips registered, none of them matching on any tier: None.
C18_NoneWitness ==
  /\ LookedUp
  /\ media_pool_clips # <<>>
  /\ FoundClip = NoClip

\* ------------------------------------------------- the operators' runs: claims

\* A run that went through its placement loop to the end.
RunFinished == op_pc = "done" /\ result = "FINISHED"

\* The events a run placed, as it counts them.
PlacedEvents == IF op = "VSE" THEN inserted_count ELSE placed_count

\* C19: in both operators a failure to place one event does not stop the run:
\* at the end, the number of events placed plus the number of WARNING reports for
\* individual events equals the number of crossing frames.
C19_EveryEventPlacedOrWarned ==
  RunFinished
    => /\ PlacedEvents + reports["WARNING"] = Len(crossing_frames)
       /\ op = "VSE" => Len(new_strips) = inserted_count
       /\ op = "RESOLVE" => Len(placements) = Len(crossing_frames)

\* A VSE run over two crossing frames that failed at the first and placed the
\* second.
C19_Witness ==
  /\ RunFinished /\ op = "VSE"
  /\ Len(crossing_frames) = 2
  /\ inserted_count = 1 /\ reports["WARNING"] = 1
  /\ sed_strips[new_strips[1]].frame_final_start = crossing_frames[2]

\* The same in the Resolve operator: the first clip not appended, the second on
\* the timeline.
C19_ResolveWitness ==
  /\ RunFinished /\ op = "RESOLVE"
  /\ Len(crossing_frames) = 2
  /\ placed_count = 1 /\ reports["WARNING"] = 1
  /\ \E k \in 1..Len(timeline_tracks) :
       \E i \in 1..Len(timeline_tracks[k]) :
         timeline_tracks[k][i].recordFrame = placements[2][1] /\ placements[2][1] # placements[1][1]

\* The sequencer and the timeline as they were before the run.
WorldUntouched == \E w \in Worlds : sed_strips = w[1] /\ timeline_tracks = w[2]

\* C20: whenever AddSoundsAtZCrossings returns CANCELLED no sound strip has been
\* added to the sequencer, and whenever SendSoundsToDaVinciResolve returns
\* CANCELLED no clip has been appended to the Resolve timeline: so for an invalid
\* armature, no bones, no crossings, invalid sounds, a failed connection and
\* unresolved clips.
C20_CancelledAddsNothing ==
  result = "CANCELLED"
    => /\ WorldUntouched
       /\ new_strips = <<>> /\ inserted_count = 0
       /\ placed_count = 0

\* The latest of the cancellations: a Resolve run with crossings that connected
\* and found no clip for its sounds, on a timeline that holds a clip.
C20_Witness ==
  /\ result = "CANCELLED" /\ op = "RESOLVE"
  /\ crossing_data # <<>>
  /\ reports["INFO"] = 1 /\ reports["ERROR"] = 1
  /\ timeline_tracks = << <<OldItem>> >>

\* The other cancellations: no crossings, and a run refused before the scan.
C20_NoCrossingsWitness ==
  /\ result = "CANCELLED" /\ op = "VSE"
  /\ det_pc = "returned" /\ crossing_data = <<>>
  /\ reports["WARNING"] = 1
  /\ sed_strips = <<OldStrip>>
C20_RefusedWitness ==
  /\ result = "CANCELLED" /\ op = "VSE"
  /\ det_pc = "idle"
  /\ armature # "ARMATURE"
  /\ reports["ERROR"] = 1

\* ------------------------------------------------------ detector: edge cases

\* C21: detect_z_crossings returns an empty mapping, without raising, when the
\* bone list is empty and when frame_start > frame_end; a range of a single
\* frame (frame_start = frame_end) also yields an empty mapping.  The scan visits
\* the frames of the range only, so it has returned once they are used up.
C21_EmptyInputsEmptyResult ==
  /\ det_pc = "returned" /\ (pose_bones = <<>> \/ frame_start >= frame_end)
       => crossing_data = <<>>
  /\ det_pc = "scan" => frame_start <= frame /\ frame <= frame_end
  /\ det_pc = "returned" /\ frame_start > frame_end => pos = <<>>

\* A scan of one frame that found a bone at or above a positive threshold.
C21_Witness ==
  /\ det_pc = "returned" /\ frame_start = frame_end
  /\ threshold > 0
  /\ \E b \in BoneSet : HeightAt(frame_start, b) >= threshold

\* A scan of no bones over several frames, and a scan of bones over no frame.
C21_NoBonesWitness ==
  /\ det_pc = "returned" /\ pose_bones = <<>>
  /\ frame_end > frame_start /\ Len(pos) = frame_end - frame_start + 1
C21_NoFramesWitness ==
  /\ det_pc = "returned" /\ pose_bones # <<>>
  /\ frame_start > frame_end

\* ------------------------------------------------------ the Geiger operator: claims

\* How many strips the sequencer held before the run, and the run's strips.
EarlierCount == Len(sed_strips) - inserted_count
GeigerStrips == {k \in 1..Len(sed_strips) : k > EarlierCount}
EarlierStrips == 1..EarlierCount

\* C22: when the bundled sound file exists InsertGeigerSound adds exactly 5
\* strips, all on one channel: 1 for an empty sequencer, else the highest channel
\* in use + 1; the first starts at the current frame and each following one at
\* the final end of the one before, so no two of them overlap; when the file is
\* missing the run returns CANCELLED and adds no strip.
C22_FiveStripsInARow ==
  /\ op = "GEIGER" /\ result = "FINISHED"
       => /\ inserted_count = GeigerCount
          /\ Cardinality(GeigerStrips) = GeigerCount
          /\ SubSeq(sed_strips, 1, EarlierCount) \in GeigerSequencers
          /\ \A k \in GeigerStrips :
               /\ sed_strips[k].filepath = GEIGER_SOUND
               /\ sed_strips[k].channel =
                    IF EarlierStrips = {} THEN 1
                    ELSE 1 + CHOOSE c \in {sed_strips[j].channel : j \in EarlierStrips} :
                               \A j \in EarlierStrips : sed_strips[j].channel <= c
               /\ sed_strips[k].frame_final_start =
                    IF k = EarlierCount + 1 THEN frame_current
                    ELSE sed_strips[k - 1].frame_final_end
          /\ \A j, k \in GeigerStrips :
               j # k => ~StripsOverlap(sed_strips[j], sed_strips[k])
  /\ op = "GEIGER" /\ result = "CANCELLED"
       => /\ inserted_count = 0
          /\ sed_strips \in GeigerSequencers
  /\ op = "GEIGER" /\ op_pc = "done" => result \in {"FINISHED", "CANCELLED"}

\* A finished run on a sequencer whose highest strip is not its last one, with
\* the cursor past frame 0.
C22_Witness ==
  /\ op = "GEIGER" /\ result = "FINISHED"
  /\ EarlierCount = 2
  /\ sed_strips[1].channel > sed_strips[2].channel
  /\ frame_current > 0
  /\ sound_frames > 1

\* A finished run on an empty sequencer, and a run cancelled for the missing file
\* on a sequencer that holds strips.
C22_EmptyWitness ==
  /\ op = "GEIGER" /\ result = "FINISHED" /\ EarlierCount = 0
C22_MissingWitness ==
  /\ op = "GEIGER" /\ result = "CANCELLED" /\ sed_strips # <<>>
  /\ reports["ERROR"] = 1

\* ------------------------------------------------------ runs after runs

\* The strips of the sequencer that are not of this run, and the run's own.
EarlierOnes == {k \in 1..Len(sed_strips) : k \notin Range(new_strips)}
BaseChosenVSE ==
  op = "VSE" /\ (op_pc \in {"place", "separate", "separating"}
                   \/ (op_pc = "done" /\ result = "FINISHED"))
BaseChosenResolve ==
  op = "RESOLVE" /\ (op_pc \in {"assigning", "append"}
                       \/ (op_pc = "done" /\ result = "FINISHED"))

\* The base is above all earlier material, and the run's strips and tracks are
\* at or above the base.
BaseAboveEarlier ==
  /\ BaseChosenVSE
       => /\ \A k \in EarlierOnes : sed_strips[k].channel < base_channel
          /\ EarlierOnes = {} => base_channel = 1
          /\ \A k \in Range(new_strips) : sed_strips[k].channel >= base_channel
          /\ \A k \in Range(new_strips), j \in EarlierOnes :
               sed_strips[k].channel # sed_strips[j].channel
  /\ op = "RESOLVE" /\ op_pc = "assigning"
       => /\ \A n \in 1..Len(timeline_tracks) :
               timeline_tracks[n] # <<>> => n < base_channel
          /\ (\A n \in 1..Len(timeline_tracks) : timeline_tracks[n] = <<>>)
               => base_channel = 1
  /\ BaseChosenResolve
       => \A i \in 1..Len(track_assignments) : track_assignments[i] >= base_channel

\* A step changes no earlier strip and no track below the base, and removes
\* neither a strip nor a track.
OnlyAtOrAboveBase ==
  /\ Len(sed_strips') >= Len(sed_strips)
  /\ Len(timeline_tracks') >= Len(timeline_tracks)
  /\ \A k \in 1..Len(sed_strips) :
       sed_strips'[k] # sed_strips[k]
         => /\ op = "VSE" /\ k \in Range(new_strips)
            /\ sed_strips'[k].channel >= base_channel
  /\ Len(sed_strips') > Len(sed_strips)
       => op = "VSE" /\ sed_strips'[Len(sed_strips')].channel >= base_channel
  /\ \A n \in 1..Len(timeline_tracks) :
       timeline_tracks'[n] # timeline_tracks[n]
         => op = "RESOLVE" /\ op_pc = "append" /\ n >= base_channel

\* C23: for every placement run, on the VSE and on the Resolve timeline, the
\* base channel/track chosen for the run is strictly greater than every
\* channel/track that held a strip/clip before the run (1 when nothing exists);
\* the run puts its strips and clips at or above the base and leaves everything
\* else as it was, so no strip of a later run shares a channel with a strip of
\* an earlier run and the tracks of earlier runs are not reused.
C23_BaseAboveEarlierRuns == []BaseAboveEarlier /\ [][OnlyAtOrAboveBase]_vars

\* A finished VSE run on a sequencer with a gap below its highest strip, that
\* stacked two strips above it.
C23_Witness ==
  /\ op = "VSE" /\ op_pc = "done" /\ result = "FINISHED"
  /\ Len(sed_strips) > 2
  /\ SubSeq(sed_strips, 1, 2) = GappedStrips
  /\ base_channel = MaxBase + 2
  /\ \E k \in Range(new_strips) : sed_strips[k].channel = base_channel + 1

\* A finished Resolve run that appended above the one used track and left the
\* free track below it free.
C23_ResolveWitness ==
  /\ op = "RESOLVE" /\ op_pc = "done" /\ result = "FINISHED"
  /\ Len(timeline_tracks) > 3
  /\ SubSeq(timeline_tracks, 1, 2) = SubSeq(GappedTracks, 1, 2)
  /\ base_channel = 3
  /\ timeline_tracks[3] # <<>>
  /\ timeline_tracks[4] # <<>>

\* ------------------------------------------------------ scheduler: termination

\* The while-loop has tried no more channels than strips were placed before.
WithinPlaced == sep_pc = "loop" => test_channel <= base_channel + (strip_idx - 1)

\* C24: separate_overlapping_strips terminates for every finite input list: for
\* each strip the while-loop over test_channel ends after finitely many
\* increments, because a channel with no placed strip is reached.
C24_SeparateTerminates ==
  /\ []WithinPlaced
  /\ (sep_pc \in {"call", "mock"}) ~> (sep_pc = "done")

\* A run that had to go up one channel per strip: MaxStrips strips that all
\* overlap, the last placed one on the highest channel.
C24_Witness ==
  /\ sep_pc = "done"
  /\ Len(strips) = MaxStrips
  /\ \E i \in 1..Len(strips) : strips[i].channel = base_channel + MaxStrips - 1

\* ------------------------------------------------------ scheduler: ties and ranges

\* Where the strip with index i stands in sorted_strips.
SortedPosition(i) == CHOOSE k \in 1..Len(sorted_strips) : sorted_strips[k] = i

\* C25: the scheduler's sort is stable, so of two items with the same start
\* frame (and duration >= 1) the one that comes earlier in the input list is
\* placed first and receives the strictly lower track number.
C25_TiesKeepInputOrder ==
  /\ sep_pc \in {"loop", "returned", "done"}
       => \A i, j \in 1..Len(strips) :
            i < j /\ strips[i].frame_final_start = strips[j].frame_final_start
              => SortedPosition(i) < SortedPosition(j)
  /\ sep_pc \in {"returned", "done"}
       => \A i, j \in 1..Len(strips) :
            i < j /\ strips[i].frame_final_start = strips[j].frame_final_start
              => strips[i].channel < strips[j].channel
  /\ sep_pc = "done" /\ caller = "RESOLVE"
       => \A i, j \in 1..Len(clip_data) :
            i < j /\ clip_data[i][1] = clip_data[j][1]
              => track_assignments[i] < track_assignments[j]

\* Two items with the same start, the earlier one the longer, behind a third
\* item that starts before them and ends where they start.
C25_Witness ==
  /\ sep_pc = "done" /\ caller = "RESOLVE"
  /\ Len(clip_data) = 3
  /\ clip_data[1][1] = clip_data[2][1]
  /\ clip_data[1][2] > clip_data[2][2]
  /\ clip_data[3][1] + clip_data[3][2] = clip_data[1][1]
  /\ track_assignments = <<base_channel, base_channel + 1, base_channel>>

\* ------------------------------------------------------ bone colours: claims

ColorIndices == 1..ColorCount
ColoredBones == DOMAIN bone_color_map

\* What the last call returned is a colour index and is what the map holds.
ColorsInRange ==
  /\ \A b \in ColoredBones : bone_color_map[b] \in ColorIndices
  /\ color_call # <<>>
       => /\ color_call[2] \in ColorIndices
          /\ color_call[1] \in ColoredBones
          /\ color_call[2] = bone_color_map[color_call[1]]

\* A call keeps every bone's index; a bone that is new gets an index no earlier
\* bone has while fewer than ColorCount bones are known, and the bone after
\* ColorCount bones gets index 1.
ColorsKept ==
  /\ \A b \in ColoredBones :
       b \in DOMAIN bone_color_map' /\ bone_color_map'[b] = bone_color_map[b]
  /\ \A b \in DOMAIN bone_color_map' \ ColoredBones :
       /\ Cardinality(ColoredBones) < ColorCount
            => \A a \in ColoredBones : bone_color_map'[b] # bone_color_map[a]
       /\ Cardinality(ColoredBones) = ColorCount => bone_color_map'[b] = 1

\* C26: get_bone_color_index always returns an index in 1..9, returns the same
\* index for the same bone name on every later call with the same map (the
\* re-application after channel separation included), and gives pairwise
\* different indices to the first 9 distinct bone names; the 10th distinct bone
\* reuses index 1.
C26_BoneColorsStable == []ColorsInRange /\ [][ColorsKept]_vars

\* Ten bones are known, the tenth shares index 1 with the first, and the last
\* call asked again for a bone seen before.
C26_Witness ==
  /\ Cardinality(ColoredBones) = 10
  /\ Cardinality({b \in ColoredBones : bone_color_map[b] = 1}) = 2
  /\ Cardinality({b \in ColoredBones : bone_color_map[b] = ColorCount}) = 1
  /\ color_call[2] = 5

\* The operator's re-application: a finished VSE run whose strips carry their
\* bone's colour, one of them on a channel the separation moved it to.
C26_ReapplyWitness ==
  /\ op = "VSE" /\ op_pc = "done" /\ result = "FINISHED"
  /\ ColoredBones # {}
  /\ \A k \in Range(new_strips) :
       sed_strips[k].color_tag = bone_color_map[sed_strips[k].bone_name]
  /\ \E k \in Range(new_strips) : sed_strips[k].channel > base_channel

\* The channels of the strips placed so far.
PlacedChannels == {strips[sorted_strips[p]].channel : p \in PlacedPositions}

\* C27: the tracks assigned by one scheduling run form a contiguous range that
\* starts at the base track, with no unused track in between, and the item at
\* position k (0-based) of the start-sorted order is assigned a track
\* <= base + k, so n items use tracks within base .. base + n - 1.
C27_ContiguousFromBase ==
  /\ PlacedChannels = base_channel..(base_channel + Cardinality(PlacedChannels) - 1)
  /\ \A p \in PlacedPositions :
       strips[sorted_strips[p]].channel <= base_channel + (p - 1)
  /\ SchedFinished
       => \A i \in 1..Len(strips) :
            /\ base_channel <= strips[i].channel
            /\ strips[i].channel <= base_channel + Len(strips) - 1
  /\ sep_pc = "done" /\ caller = "RESOLVE"
       => Range(track_assignments) = PlacedChannels

\* A run above earlier material that used two tracks for three items, the
\* last item of the sorted order back on the base track.
C27_Witness ==
  /\ sep_pc = "done" /\ caller = "RESOLVE"
  /\ base_channel = MaxBase /\ MaxBase > 1
  /\ Len(strips) = 3
  /\ PlacedChannels = {base_channel, base_channel + 1}
  /\ strips[sorted_strips[3]].channel = base_channel

\* ------------------------------------------------------ detector: at the threshold

\* All frames scanned so far.
ScannedFrames == frame_start..(frame_start + Len(pos) - 1)

\* The one monitored bone rises (falls) from frame to frame or keeps its height.
Rising(b) == \A f \in ComparedFrames : HeightAt(f - 1, b) <= HeightAt(f, b)
Falling(b) == \A f \in ComparedFrames : HeightAt(f - 1, b) >= HeightAt(f, b)

\* C28: if a bone's position at frame f-1 equals the threshold exactly, no
\* crossing is recorded for that bone at frame f in any direction mode; so a bone
\* that reaches the threshold exactly from below and then drops back below gives
\* an UP event on arrival and no DOWN event on leaving, and a bone that moves
\* monotonically through the threshold gives exactly one event (in a direction
\* mode that sees the movement).
C28_NoEventFromThreshold ==
  det_pc \in {"scan", "returned"} =>
    /\ \A f \in ComparedFrames, b \in BoneSet :
         HeightAt(f - 1, b) = threshold
           => (f \in DOMAIN crossing_data => crossing_data[f][2] # b)
    /\ Len(pose_bones) = 1 =>
         LET b == pose_bones[1] IN
         /\ \A f \in ComparedFrames :
              (f + 1 \in ComparedFrames
                 /\ HeightAt(f - 1, b) < threshold /\ HeightAt(f, b) = threshold
                 /\ HeightAt(f + 1, b) < threshold)
                => /\ (f \in DOMAIN crossing_data) = (direction \in {"UP", "BOTH"})
                   /\ f + 1 \notin DOMAIN crossing_data
         /\ (det_pc = "returned" /\ Len(pos) >= 2 /\ Rising(b)
                /\ HeightAt(frame_start, b) < threshold
                /\ HeightAt(frame_end, b) >= threshold
                /\ direction \in {"UP", "BOTH"})
              => Cardinality(DOMAIN crossing_data) = 1
         /\ (det_pc = "returned" /\ Len(pos) >= 2 /\ Falling(b)
                /\ HeightAt(frame_start, b) > threshold
                /\ HeightAt(frame_end, b) <= threshold
                /\ direction \in {"DOWN", "BOTH"})
              => Cardinality(DOMAIN crossing_data) = 1

\* A bone that came up to the threshold, stayed on it for a frame and dropped
\* back: the only event is the arrival.
C28_Witness ==
  /\ det_pc = "returned" /\ direction = "BOTH" /\ Len(pose_bones) = 1
  /\ Len(pos) = 4
  /\ HeightAt(frame_start, pose_bones[1]) < threshold
  /\ HeightAt(frame_start + 1, pose_bones[1]) = threshold
  /\ HeightAt(frame_start + 2, pose_bones[1]) = threshold
  /\ HeightAt(frame_start + 3, pose_bones[1]) < threshold
  /\ DOMAIN crossing_data = {frame_start + 1}

\* A bone that rises through the threshold, resting on it for a frame: one event.
C28_MonotoneWitness ==
  /\ det_pc = "returned" /\ direction = "UP" /\ Len(pose_bones) = 1
  /\ Len(pos) = 4 /\ Rising(pose_bones[1])
  /\ HeightAt(frame_start, pose_bones[1]) < threshold
  /\ HeightAt(frame_start + 2, pose_bones[1]) = threshold
  /\ HeightAt(frame_end, pose_bones[1]) > threshold
  /\ Cardinality(DOMAIN crossing_data) = 1

\* ------------------------------------------------------ Resolve: no clip skipped

\* The Resolve run has a placement list, whole or in the making, and has not failed.
PlacementsListed ==
  /\ op = "RESOLVE"
  /\ \/ op_pc \in {"place", "assign", "assigning", "append"}
     \/ op_pc = "done" /\ result = "FINISHED"

\* C29: in SendSoundsToDaVinciResolve, once the placement list is built every
\* placement's sound path maps to a non-null media-pool clip (RANDOM mode draws
\* only from usable_sound_paths, SINGLE mode has been checked to be usable), so
\* the 'Could not find imported clip' branch of the placement loop is never taken:
\* the clip looked up at each turn of the loop is there and AppendToTimeline is
\* called with it.
C29_EveryPlacementHasItsClip ==
  PlacementsListed
    => /\ \A i \in 1..Len(placements) :
            /\ placements[i][3] \in DOMAIN resolved_sound_clips
            /\ resolved_sound_clips[placements[i][3]] # NoClip
            /\ placements[i][3] \in Range(usable_sound_paths)
       /\ op_pc = "append" => MediaClipFor(placements[event_idx][3]) # NoClip

\* A finished RANDOM run that placed its clip although one of the listed sounds
\* has no clip in the media pool.
C29_Witness ==
  /\ PlacementsListed /\ op_pc = "done"
  /\ selection_mode = "RANDOM"
  /\ placed_count >= 1
  /\ \E sp \in DOMAIN resolved_sound_clips : resolved_sound_clips[sp] = NoClip

\* The same in SINGLE mode, at the first turn of the placement loop.
C29_SingleWitness ==
  /\ PlacementsListed /\ op_pc = "append" /\ event_idx = 1
  /\ selection_mode = "SINGLE"
  /\ placements[1][3] = sound_path

\* ------------------------------------------------------ Resolve: enough tracks

\* The Resolve run is in its placement loop or has finished it.
TracksEnsured ==
  /\ op = "RESOLVE"
  /\ \/ op_pc = "append"
     \/ op_pc = "done" /\ result = "FINISHED"

\* Every assigned track index is a track of the timeline.
TracksSuffice ==
  TracksEnsured
    => /\ Len(timeline_tracks) >= MaxTrackNeeded
       /\ \A i \in 1..Len(track_assignments) :
            1 <= track_assignments[i] /\ track_assignments[i] <= Len(timeline_tracks)

\* A step keeps every track of the timeline and every clip on it.
TracksKept ==
  /\ Len(timeline_tracks') >= Len(timeline_tracks)
  /\ \A k \in 1..Len(timeline_tracks) :
       /\ Len(timeline_tracks'[k]) >= Len(timeline_tracks[k])
       /\ SubSeq(timeline_tracks'[k], 1, Len(timeline_tracks[k])) = timeline_tracks[k]

\* C30: in SendSoundsToDaVinciResolve, before the first AppendToTimeline call the
\* timeline's audio track count is at least the largest assigned track index
\* (missing tracks are added one by one, each AddTrack call adding one track), so
\* every clip is appended with 1 <= trackIndex <= audio track count; existing
\* tracks are never removed.
C30_TracksExistBeforeAppend == []TracksSuffice /\ [][TracksKept]_vars

\* Before the first AppendToTimeline call of a run on a timeline with one used
\* track: two tracks have been added for two clips that overlap.
C30_Witness ==
  /\ TracksEnsured /\ op_pc = "append" /\ event_idx = 1
  /\ timeline_tracks = << <<OldItem>>, <<>>, <<>> >>
  /\ Len(track_assignments) = 2
  /\ track_assignments[1] = 2 /\ track_assignments[2] = 3

\* A run that needs no new track: the one clip goes on the empty top track of
\* the timeline.
C30_NoneAddedWitness ==
  /\ TracksEnsured /\ op_pc = "done"
  /\ Len(timeline_tracks) = Len(GappedTracks)
  /\ Len(track_assignments) = 1
  /\ track_assignments[1] = Len(GappedTracks)
  /\ Len(timeline_tracks[Len(GappedTracks)]) = placed_count /\ placed_count = 1

====
